---- MODULE Spec2Model ----
(***************************************************************************)
(* A model of the gorpn RPN expression evaluator (src/eval.go, the current *)
(* version of the package that starts at line 895 of that file).           *)
(*                                                                         *)
(* Go values held in an interface{} are records [k, n, d, s]:              *)
(*   k = "num"  a finite float64, the rational n/d in lowest terms, d > 0  *)
(*   k = "nan" / "inf" / "ninf"   the float64 NaN, +Inf and -Inf           *)
(*   k = "fin"  a finite float64 that is not a small rational (the result  *)
(*              of a transcendental function); no checked run reaches it   *)
(*   k = "int"  a Go int with value n (what `result = 0` and DEPTH store)  *)
(*   k = "str"  a Go string s                                              *)
(*   k = "nil"  the nil interface (a slot of a fresh array)                *)
(* Finite floats are exact rationals: rounding and the sign of zero are    *)
(* not modelled.  A Go string is the sequence of its characters, and the   *)
(* field s is <<>> for every value that is not a string.  Go arrays are    *)
(* 0-based, the sequences here 1-based: Go index i is position i + 1.      *)
(***************************************************************************)
EXTENDS Integers, Sequences, FiniteSets, TLC

\* text and opts are the arguments of New: the expression text and the
\* values handed to the Delimiter and SecondsPerInterval configurators.
\* heap holds every array and map the program allocates, by address; objs
\* holds the Expression structs, Expression i being the pointer i.  ret is
\* the last call and what it returned; calls counts the calls made.  made
\* is a history variable: made[i] is the call that returned Expression i.
\* running holds the Evaluate calls that goroutines have in flight.
\* bucket is a call of SparseSeries.Bucket: its receiver, its arguments
\* and, once called, what it returned.
VARIABLES text, opts, heap, objs, ret, calls, made, running, bucket

vars == <<text, opts, heap, objs, ret, calls, made, running, bucket>>

-----------------------------------------------------------------------------
(* Values *)

Abs(i) == IF i < 0 THEN -i ELSE i

RECURSIVE GCD(_, _)
GCD(a, b) == IF b = 0 THEN a ELSE GCD(b, a % b)

Sign(i) == IF i < 0 THEN -1 ELSE IF i = 0 THEN 0 ELSE 1

Rat(n, d) ==
    LET g == GCD(Abs(n), Abs(d))
        sg == IF d < 0 THEN -1 ELSE 1
    IN  [k |-> "num", n |-> (sg * n) \div g, d |-> (sg * d) \div g, s |-> <<>>]

Num(i) == [k |-> "num", n |-> i, d |-> 1, s |-> <<>>]
NaN == [k |-> "nan", n |-> 0, d |-> 1, s |-> <<>>]
PosInf == [k |-> "inf", n |-> 0, d |-> 1, s |-> <<>>]
NegInf == [k |-> "ninf", n |-> 0, d |-> 1, s |-> <<>>]
Opaque == [k |-> "fin", n |-> 0, d |-> 1, s |-> <<>>]
GoInt(i) == [k |-> "int", n |-> i, d |-> 1, s |-> <<>>]
Str(t) == [k |-> "str", n |-> 0, d |-> 1, s |-> t]
Nil == [k |-> "nil", n |-> 0, d |-> 1, s |-> <<>>]

FloatKinds == {"num", "nan", "inf", "ninf", "fin"}

\* v.(float64) succeeds
IsF(v) == v.k \in FloatKinds
\* v.(string) succeeds
IsS(v) == v.k = "str"

IsNaN(v) == v.k = "nan"
IsInf(v, sign) ==
    \/ sign >= 0 /\ v.k = "inf"
    \/ sign <= 0 /\ v.k = "ninf"
IsZero(v) == v.k = "num" /\ v.n = 0
IsOne(v) == v.k = "num" /\ v.n = 1 /\ v.d = 1

\* the sign of a float that is not NaN: -1, 0, 1
FSign(v) ==
    CASE v.k = "inf" -> 1
      [] v.k = "ninf" -> -1
      [] OTHER -> Sign(v.n)

SignedInf(sg) == IF sg < 0 THEN NegInf ELSE PosInf

\* float64 comparison operators; every comparison with NaN is false
fLt(a, b) ==
    CASE IsNaN(a) \/ IsNaN(b) -> FALSE
      [] a.k = "inf" -> FALSE
      [] b.k = "ninf" -> FALSE
      [] a.k = "ninf" -> TRUE
      [] b.k = "inf" -> TRUE
      [] OTHER -> a.n * b.d < b.n * a.d
fEq(a, b) ==
    CASE IsNaN(a) \/ IsNaN(b) -> FALSE
      [] a.k # "num" \/ b.k # "num" -> a.k = b.k
      [] OTHER -> a.n = b.n /\ a.d = b.d
fLe(a, b) == fLt(a, b) \/ fEq(a, b)
fGt(a, b) == fLt(b, a)
\* a >= that lost its equality
fGeStrict(a, b) == fLt(b, a)
fGe(a, b) == fLe(b, a)
fNe(a, b) == ~fEq(a, b)

\* float64 arithmetic (IEEE 754 special cases)
fAdd(a, b) ==
    CASE IsNaN(a) \/ IsNaN(b) -> NaN
      [] a.k = "inf" -> IF b.k = "ninf" THEN NaN ELSE PosInf
      [] a.k = "ninf" -> IF b.k = "inf" THEN NaN ELSE NegInf
      [] b.k \in {"inf", "ninf"} -> b
      [] a.k = "fin" \/ b.k = "fin" -> Opaque
      [] OTHER -> Rat(a.n * b.d + b.n * a.d, a.d * b.d)
fNeg(a) ==
    CASE a.k = "inf" -> NegInf
      [] a.k = "ninf" -> PosInf
      [] a.k = "num" -> Rat(-a.n, a.d)
      [] OTHER -> a
fSub(a, b) == fAdd(a, fNeg(b))
fMul(a, b) ==
    CASE IsNaN(a) \/ IsNaN(b) -> NaN
      [] a.k \in {"inf", "ninf"} \/ b.k \in {"inf", "ninf"} ->
            IF IsZero(a) \/ IsZero(b) THEN NaN
            ELSE SignedInf(FSign(a) * (IF b.k = "fin" THEN 1 ELSE FSign(b)))
      [] a.k = "fin" \/ b.k = "fin" -> Opaque
      [] OTHER -> Rat(a.n * b.n, a.d * b.d)
fDiv(a, b) ==
    CASE IsNaN(a) \/ IsNaN(b) -> NaN
      [] a.k \in {"inf", "ninf"} ->
            IF b.k \in {"inf", "ninf"} THEN NaN
            ELSE SignedInf(FSign(a) * (IF FSign(b) < 0 THEN -1 ELSE 1))
      [] b.k \in {"inf", "ninf"} -> Num(0)
      [] IsZero(b) -> IF IsZero(a) THEN NaN ELSE SignedInf(FSign(a))
      [] a.k = "fin" \/ b.k = "fin" -> Opaque
      [] OTHER -> Rat(a.n * b.d, a.d * b.n)

\* the integer part of a finite rational, toward zero: Go's int(f)
Trunc(v) == IF v.n >= 0 THEN v.n \div v.d ELSE -((-v.n) \div v.d)

mathFloor(v) == IF v.k = "num" THEN Num(v.n \div v.d) ELSE v
mathCeil(v) == IF v.k = "num" THEN Num(-((-v.n) \div v.d)) ELSE v
mathAbs(v) ==
    CASE v.k = "ninf" -> PosInf
      [] v.k = "num" -> Rat(Abs(v.n), v.d)
      [] OTHER -> v
\* math.Mod(x, y)
mathMod(x, y) ==
    CASE IsNaN(x) \/ IsNaN(y) -> NaN
      [] x.k \in {"inf", "ninf"} -> NaN
      [] IsZero(y) -> NaN
      [] y.k \in {"inf", "ninf"} -> x
      [] x.k = "fin" \/ y.k = "fin" -> Opaque
      [] OTHER -> fSub(x, fMul(y, Num(Trunc(fDiv(x, y)))))
\* math.Max and math.Min
mathMax(x, y) ==
    CASE x.k = "inf" \/ y.k = "inf" -> PosInf
      [] IsNaN(x) \/ IsNaN(y) -> NaN
      [] OTHER -> IF fLt(x, y) THEN y ELSE x
mathMin(x, y) ==
    CASE x.k = "ninf" \/ y.k = "ninf" -> NegInf
      [] IsNaN(x) \/ IsNaN(y) -> NaN
      [] OTHER -> IF fLt(y, x) THEN y ELSE x

RECURSIVE IntPow(_, _)
IntPow(b, e) == IF e = 0 THEN 1 ELSE b * IntPow(b, e - 1)

\* math.Pow(x, y); exact for a rational base and an integer exponent
mathPow(x, y) ==
    CASE IsZero(y) -> Num(1)
      [] IsOne(x) -> Num(1)
      [] IsNaN(x) \/ IsNaN(y) -> NaN
      [] IsOne(y) -> x
      [] x.k = "num" /\ y.k = "num" /\ y.d = 1 ->
            IF y.n > 0 THEN Rat(IntPow(x.n, y.n), IntPow(x.d, y.n))
            ELSE IF x.n = 0 THEN PosInf
            ELSE Rat(IntPow(x.d, -y.n), IntPow(x.n, -y.n))
      [] x.k = "num" /\ y.k = "inf" ->
            IF Abs(x.n) > x.d THEN PosInf
            ELSE IF Abs(x.n) = x.d THEN Num(1) ELSE Num(0)
      [] x.k = "num" /\ y.k = "ninf" ->
            IF Abs(x.n) > x.d THEN Num(0)
            ELSE IF Abs(x.n) = x.d THEN Num(1) ELSE PosInf
      [] x.k = "inf" -> IF FSign(y) < 0 THEN Num(0) ELSE PosInf
      [] x.k = "ninf" /\ y.k \in {"inf", "ninf"} ->
            IF y.k = "inf" THEN PosInf ELSE Num(0)
      [] x.k = "ninf" /\ y.k = "num" /\ y.d = 1 ->
            IF y.n < 0 THEN Num(0)
            ELSE IF y.n % 2 = 1 THEN NegInf ELSE PosInf
      [] OTHER -> Opaque

\* the functions with irrational values are exact only at their rational
\* points; elsewhere the result is the untracked finite value
mathSqrt(v) ==
    CASE IsNaN(v) \/ v.k = "ninf" -> NaN
      [] v.k = "inf" -> PosInf
      [] v.k = "num" /\ v.n < 0 -> NaN
      [] v.k = "num" /\ v.d = 1 /\ \E r \in 0..v.n : r * r = v.n ->
            Num(CHOOSE r \in 0..v.n : r * r = v.n)
      [] OTHER -> Opaque
mathLog(v) ==
    CASE IsNaN(v) \/ v.k = "ninf" -> NaN
      [] v.k = "inf" -> PosInf
      [] v.k = "num" /\ v.n < 0 -> NaN
      [] IsZero(v) -> NegInf
      [] IsOne(v) -> Num(0)
      [] OTHER -> Opaque
mathExp(v) ==
    CASE IsNaN(v) -> NaN
      [] v.k = "inf" -> PosInf
      [] v.k = "ninf" -> Num(0)
      [] IsZero(v) -> Num(1)
      [] OTHER -> Opaque
mathSin(v) ==
    CASE IsNaN(v) \/ v.k \in {"inf", "ninf"} -> NaN
      [] IsZero(v) -> Num(0)
      [] OTHER -> Opaque
mathCos(v) ==
    CASE IsNaN(v) \/ v.k \in {"inf", "ninf"} -> NaN
      [] IsZero(v) -> Num(1)
      [] OTHER -> Opaque
mathAtan(v) ==
    CASE IsNaN(v) -> NaN
      [] IsZero(v) -> Num(0)
      [] OTHER -> Opaque
mathAtan2(y, x) ==
    CASE IsNaN(x) \/ IsNaN(y) -> NaN
      [] IsZero(y) /\ x.k \in {"num", "inf"} /\ FSign(x) >= 0 -> Num(0)
      [] OTHER -> Opaque
\* x * math.Pi / 180 and x * 180 / math.Pi
Deg2Rad(v) ==
    CASE IsNaN(v) \/ v.k \in {"inf", "ninf"} -> v
      [] IsZero(v) -> Num(0)
      [] OTHER -> Opaque

-----------------------------------------------------------------------------
(* Strings: strings.Split, strings.Join, strconv.ParseFloat, fmt.Sprint *)

RECURSIVE ToStr(_)
\* the characters of a Go string as one TLA+ string (used to switch on names)
ToStr(cs) == IF cs = <<>> THEN "" ELSE Head(cs) \o ToStr(Tail(cs))

RECURSIVE Split(_, _)
\* strings.Split(s, sep) for a one-character separator
Split(cs, sep) ==
    IF \A i \in 1..Len(cs) : cs[i] # sep THEN <<cs>>
    ELSE LET i == CHOOSE j \in 1..Len(cs) :
                      cs[j] = sep /\ \A h \in 1..(j - 1) : cs[h] # sep
         IN  <<SubSeq(cs, 1, i - 1)>> \o Split(SubSeq(cs, i + 1, Len(cs)), sep)

RECURSIVE Join(_, _)
\* strings.Join(strs, sep)
Join(strs, sep) ==
    IF strs = <<>> THEN <<>>
    ELSE IF Len(strs) = 1 THEN strs[1]
    ELSE strs[1] \o <<sep>> \o Join(Tail(strs), sep)

Digits == <<"0", "1", "2", "3", "4", "5", "6", "7", "8", "9">>
IsDigit(c) == \E i \in 1..10 : Digits[i] = c
DigitVal(c) == (CHOOSE i \in 1..10 : Digits[i] = c) - 1
AllDigits(cs) == \A i \in 1..Len(cs) : IsDigit(cs[i])

RECURSIVE DigitsVal(_)
\* the value of a string of decimal digits
DigitsVal(cs) ==
    IF cs = <<>> THEN 0
    ELSE 10 * DigitsVal(SubSeq(cs, 1, Len(cs) - 1)) + DigitVal(cs[Len(cs)])

Lower(c) ==
    CASE c = "I" -> "i" [] c = "N" -> "n" [] c = "F" -> "f" [] c = "A" -> "a"
      [] c = "T" -> "t" [] c = "Y" -> "y" [] c = "E" -> "e" [] OTHER -> c
LowerAll(cs) == [i \in 1..Len(cs) |-> Lower(cs[i])]

\* the position of the first exponent marker, or 0
ExpPos(cs) ==
    IF \E i \in 1..Len(cs) : cs[i] \in {"e", "E"}
    THEN CHOOSE i \in 1..Len(cs) :
             cs[i] \in {"e", "E"} /\ \A h \in 1..(i - 1) : cs[h] \notin {"e", "E"}
    ELSE 0
DotPos(cs) ==
    IF \E i \in 1..Len(cs) : cs[i] = "."
    THEN CHOOSE i \in 1..Len(cs) : cs[i] = "." /\ \A h \in 1..(i - 1) : cs[h] # "."
    ELSE 0

Unsigned(cs) == IF cs # <<>> /\ cs[1] \in {"+", "-"} THEN Tail(cs) ELSE cs
SignOf(cs) == IF cs # <<>> /\ cs[1] = "-" THEN -1 ELSE 1

\* a decimal mantissa: digits, with an optional point, at least one digit
IsMantissa(cs) ==
    LET p == DotPos(cs)
        ip == IF p = 0 THEN cs ELSE SubSeq(cs, 1, p - 1)
        fp == IF p = 0 THEN <<>> ELSE SubSeq(cs, p + 1, Len(cs))
    IN  AllDigits(ip) /\ AllDigits(fp) /\ Len(ip) + Len(fp) > 0
MantissaVal(cs) ==
    LET p == DotPos(cs)
        ip == IF p = 0 THEN cs ELSE SubSeq(cs, 1, p - 1)
        fp == IF p = 0 THEN <<>> ELSE SubSeq(cs, p + 1, Len(cs))
    IN  Rat(DigitsVal(ip \o fp), IntPow(10, Len(fp)))
IsExponent(cs) == Unsigned(cs) # <<>> /\ AllDigits(Unsigned(cs))
ExponentVal(cs) == SignOf(cs) * DigitsVal(Unsigned(cs))

\* strconv.ParseFloat(token, 64) succeeds.  Decimal numbers and the names
\* inf, infinity and nan in any letter case; hexadecimal floats and digit
\* separators are not modelled.
IsFloatText(cs) ==
    LET u == Unsigned(cs)
        l == LowerAll(u)
        e == ExpPos(u)
    IN  \/ l \in {<<"i", "n", "f">>, <<"i", "n", "f", "i", "n", "i", "t", "y">>}
        \/ LowerAll(cs) = <<"n", "a", "n">>
        \/ e = 0 /\ IsMantissa(u)
        \/ e > 0 /\ IsMantissa(SubSeq(u, 1, e - 1))
                 /\ IsExponent(SubSeq(u, e + 1, Len(u)))
\* the float64 that ParseFloat returns
ParseFloat(cs) ==
    LET u == Unsigned(cs)
        l == LowerAll(u)
        e == ExpPos(u)
        m == MantissaVal(IF e = 0 THEN u ELSE SubSeq(u, 1, e - 1))
        x == IF e = 0 THEN 0 ELSE ExponentVal(SubSeq(u, e + 1, Len(u)))
        p == IF x >= 0 THEN Num(IntPow(10, x)) ELSE Rat(1, IntPow(10, -x))
    IN  CASE LowerAll(cs) = <<"n", "a", "n">> -> NaN
          [] l \in {<<"i", "n", "f">>, <<"i", "n", "f", "i", "n", "i", "t", "y">>} ->
                SignedInf(SignOf(cs))
          [] OTHER -> fMul(Num(SignOf(cs)), fMul(m, p))

RECURSIVE IntStr(_)
\* the decimal digits of a natural number
IntStr(i) == IF i < 10 THEN <<Digits[i + 1]>> ELSE IntStr(i \div 10) \o <<Digits[(i % 10) + 1]>>

\* the longest decimal expansion the formatter follows
MaxFracDigits == 17

RECURSIVE FracDigits(_, _, _)
\* the digits after the point of r/d (r < d); "?" marks an expansion that
\* does not end within MaxFracDigits digits, which the model cannot print
FracDigits(r, d, fuel) ==
    IF r = 0 THEN <<>>
    ELSE IF fuel = 0 THEN <<"?">>
    ELSE <<Digits[((10 * r) \div d) + 1]>> \o FracDigits((10 * r) % d, d, fuel - 1)

RECURSIVE StripLeadingZeros(_)
StripLeadingZeros(cs) ==
    IF cs # <<>> /\ cs[1] = "0" THEN StripLeadingZeros(Tail(cs)) ELSE cs
RECURSIVE StripTrailingZeros(_)
StripTrailingZeros(cs) ==
    IF cs # <<>> /\ cs[Len(cs)] = "0"
    THEN StripTrailingZeros(SubSeq(cs, 1, Len(cs) - 1)) ELSE cs

\* fmt.Sprint(v) for a float64 that is not NaN or infinite: the %v verb,
\* strconv's 'g' format with the shortest digits, which switches to the
\* exponent form when the decimal exponent is < -4 or >= 6
FormatFloat(v) ==
    LET a == Abs(v.n)
        ip == IntStr(a \div v.d)
        fp == FracDigits(a % v.d, v.d, MaxFracDigits)
        sg == IF v.n < 0 THEN <<"-">> ELSE <<>>
        lz == Len(fp) - Len(StripLeadingZeros(fp))
        exp == IF a \div v.d > 0 THEN Len(ip) - 1 ELSE -(lz + 1)
        sig == StripTrailingZeros(StripLeadingZeros(ip \o fp))
        ex == IntStr(Abs(exp))
    IN  IF v.k # "num" THEN <<"?">>
        ELSE IF a = 0 THEN <<"0">>
        ELSE IF exp < -4 \/ exp >= 6
        THEN sg \o <<sig[1]>>
                \o (IF Len(sig) > 1 THEN <<".">> \o Tail(sig) ELSE <<>>)
                \o <<"e", IF exp < 0 THEN "-" ELSE "+">>
                \o (IF Len(ex) < 2 THEN <<"0">> \o ex ELSE ex)
        ELSE sg \o ip \o (IF fp = <<>> THEN <<>> ELSE <<".">> \o fp)

\* one token of Expression.String
TokenString(v) ==
    CASE IsNaN(v) -> <<"U", "N", "K", "N">>
      [] v.k = "inf" -> <<"I", "N", "F">>
      [] v.k = "ninf" -> <<"N", "E", "G", "I", "N", "F">>
      [] v.k \in {"num", "fin"} -> FormatFloat(v)
      [] v.k = "str" -> v.s
      [] v.k = "int" -> (IF v.n < 0 THEN <<"-">> ELSE <<>>) \o IntStr(Abs(v.n))
      [] OTHER -> <<"<", "n", "i", "l", ">">>

-----------------------------------------------------------------------------
(* The operator catalog *)

arityTuple(p, fo, fc, no, nc) ==
    [popCount |-> p, floatOffset |-> fo, floatCount |-> fc,
     nonOperatorOffset |-> no, nonOperatorCount |-> nc]

arity ==
    ("%" :> arityTuple(2, 2, 0, 0, 0)) @@ ("*" :> arityTuple(2, 2, 0, 0, 0)) @@
    ("+" :> arityTuple(2, 2, 0, 0, 0)) @@ ("-" :> arityTuple(2, 2, 0, 0, 0)) @@
    ("/" :> arityTuple(2, 2, 0, 0, 0)) @@
    ("ABS" :> arityTuple(1, 1, 1, 0, 0)) @@ ("ADDNAN" :> arityTuple(2, 2, 2, 0, 0)) @@
    ("ATAN" :> arityTuple(1, 1, 1, 0, 0)) @@ ("ATAN2" :> arityTuple(2, 2, 2, 0, 0)) @@
    ("AVG" :> arityTuple(1, 1, 1, 0, 0)) @@ ("CEIL" :> arityTuple(1, 1, 1, 0, 0)) @@
    ("COPY" :> arityTuple(1, 1, 1, 0, 0)) @@ ("COS" :> arityTuple(1, 1, 1, 0, 0)) @@
    ("DEG2RAD" :> arityTuple(1, 1, 1, 0, 0)) @@ ("DEPTH" :> arityTuple(0, 0, 0, 0, 0)) @@
    ("DUP" :> arityTuple(1, 0, 0, 1, 1)) @@ ("EQ" :> arityTuple(2, 0, 0, 2, 2)) @@
    ("EXC" :> arityTuple(2, 0, 0, 2, 2)) @@ ("EXP" :> arityTuple(1, 1, 1, 0, 0)) @@
    ("FLOOR" :> arityTuple(1, 1, 1, 0, 0)) @@ ("GE" :> arityTuple(2, 0, 0, 2, 2)) @@
    ("GT" :> arityTuple(2, 0, 0, 2, 2)) @@ ("IF" :> arityTuple(3, 3, 1, 2, 2)) @@
    ("INDEX" :> arityTuple(1, 1, 1, 0, 0)) @@ ("ISINF" :> arityTuple(1, 1, 1, 0, 0)) @@
    ("LE" :> arityTuple(2, 0, 0, 2, 2)) @@ ("LIMIT" :> arityTuple(3, 3, 3, 0, 0)) @@
    ("LOG" :> arityTuple(1, 1, 1, 0, 0)) @@ ("LT" :> arityTuple(2, 0, 0, 2, 2)) @@
    ("MAD" :> arityTuple(1, 1, 1, 0, 0)) @@ ("MAX" :> arityTuple(2, 0, 0, 2, 2)) @@
    ("MAXNAN" :> arityTuple(2, 0, 0, 2, 2)) @@ ("MEDIAN" :> arityTuple(1, 1, 1, 0, 0)) @@
    ("MIN" :> arityTuple(2, 0, 0, 2, 2)) @@ ("MINNAN" :> arityTuple(2, 0, 0, 2, 2)) @@
    ("NE" :> arityTuple(2, 0, 0, 2, 2)) @@ ("PERCENT" :> arityTuple(2, 2, 2, 0, 0)) @@
    ("POP" :> arityTuple(1, 0, 0, 0, 0)) @@ ("POW" :> arityTuple(2, 2, 0, 0, 0)) @@
    ("RAD2DEG" :> arityTuple(1, 1, 1, 0, 0)) @@ ("REV" :> arityTuple(1, 1, 1, 0, 0)) @@
    ("ROLL" :> arityTuple(2, 2, 2, 0, 0)) @@ ("SIN" :> arityTuple(1, 1, 1, 0, 0)) @@
    ("SMAX" :> arityTuple(1, 1, 1, 0, 0)) @@ ("SMIN" :> arityTuple(1, 1, 1, 0, 0)) @@
    ("SORT" :> arityTuple(1, 1, 1, 0, 0)) @@ ("SQRT" :> arityTuple(1, 1, 1, 0, 0)) @@
    ("STDEV" :> arityTuple(1, 1, 1, 0, 0)) @@ ("TREND" :> arityTuple(2, 1, 1, 2, 1)) @@
    ("TRENDNAN" :> arityTuple(2, 1, 1, 2, 1)) @@ ("UN" :> arityTuple(1, 1, 1, 0, 0))

\* _, ok = arity[name]
IsOperator(name) == name \in DOMAIN arity

-----------------------------------------------------------------------------
(* Errors.  kind "nil" is the nil error; kind "panic" is a run-time panic, *)
(* which is not an error value: it unwinds through every caller.           *)

MkErr(kind, msg, op, a, b, v, names) ==
    [kind |-> kind, msg |-> msg, op |-> op, a |-> a, b |-> b, v |-> v, names |-> names]
NilErr == MkErr("nil", "", "", 0, 0, Nil, {})
Panic(msg) == MkErr("panic", msg, "", 0, 0, Nil, {})
\* newErrSyntax(format, args...): msg is the format with its verbs removed,
\* op, a, b and v are the arguments
ErrSyntax(msg, op, a, b, v) == MkErr("Syntax", msg, op, a, b, v, {})
ErrOpenBindings(names) == MkErr("OpenBindings", "open bindings", "", 0, 0, Nil, names)
ExpectedFloat(v) == MkErr("ExpectedFloat", "expected float", "", 0, 0, v, {})
\* ErrBadBindingType{t}: op is the offending key, msg the Go type found
ErrBadBindingType(key, t) == MkErr("BadBindingType", t, key, 0, 0, Nil, {})

-----------------------------------------------------------------------------
(* The work area of one simplify pass: the receiver's scratch, isFloat,    *)
(* scratchHead and openBindings fields, the error the pass returns, and    *)
(* whether the pass replaced the scratch and isFloat arrays (COPY).        *)

\* e.scratch[i] and e.isFloat[i], Go indices
At(st, i) == st.scratch[i + 1]
Fl(st, i) == st.isFloat[i + 1]
InRange(st, i) == 0 <= i /\ i < Len(st.scratch)

Fail(st, err) == [st EXCEPT !.err = err]

\* e.scratch[e.scratchHead] = v; e.isFloat[e.scratchHead] = f; e.scratchHead++
Push(st, v, f) ==
    IF ~InRange(st, st.scratchHead) THEN Fail(st, Panic("index out of range"))
    ELSE [st EXCEPT !.scratch[st.scratchHead + 1] = v,
                    !.isFloat[st.scratchHead + 1] = f,
                    !.scratchHead = st.scratchHead + 1]

\* e.openBindings[k] = e.openBindings[k] + d
Bump(open, k, d) ==
    IF k \in DOMAIN open THEN [open EXCEPT ![k] = open[k] + d] ELSE open @@ (k :> d)

\* push an unresolved symbol and record one occurrence under key k
PushOpen(st, tok, k) ==
    Push([st EXCEPT !.openBindings = Bump(st.openBindings, k, 1)], Str(tok), FALSE)

-----------------------------------------------------------------------------
(* The operators that compute one result.  Each definition is one case of  *)
(* the switch in simplify, for the operands s0, s1, s2 at indexOfFirstArg  *)
(* and their isFloat flags f0, f1.  The value is the result, or CannotV    *)
(* when the case sets cannotSimplify, or PanicV when a type assertion of   *)
(* the case fails.                                                         *)

CannotV == [k |-> "cannot", n |-> 0, d |-> 1, s |-> <<>>]
PanicV == [k |-> "panic", n |-> 0, d |-> 1, s |-> <<>>]
Bool01(b) == IF b THEN Num(1) ELSE Num(0)

caseAdd(s0, s1, f0, f1) ==
    IF f0
    THEN IF f1 THEN (IF IsF(s0) /\ IsF(s1) THEN fAdd(s0, s1) ELSE PanicV)
         ELSE IF ~IsF(s0) THEN PanicV
         ELSE IF IsZero(s0) THEN s1 ELSE CannotV
    ELSE IF f1 THEN (IF ~IsF(s1) THEN PanicV
                     ELSE IF IsZero(s1) THEN s0 ELSE CannotV)
    ELSE CannotV

\* a subtraction that folds 0,b,- to b the way the addition folds 0,b,+
caseSubZeroLeft(s0, s1, f0, f1) ==
    IF f0
    THEN IF f1 THEN (IF IsF(s0) /\ IsF(s1) THEN fSub(s0, s1) ELSE PanicV)
         ELSE IF ~IsF(s0) THEN PanicV
         ELSE IF IsZero(s0) THEN s1 ELSE CannotV
    ELSE IF f1 THEN (IF ~IsF(s1) THEN PanicV
                     ELSE IF IsZero(s1) THEN s0 ELSE CannotV)
    ELSE CannotV

caseSub(s0, s1, f0, f1) ==
    IF f0
    THEN IF f1 THEN (IF IsF(s0) /\ IsF(s1) THEN fSub(s0, s1) ELSE PanicV)
         ELSE CannotV
    ELSE IF f1 THEN (IF ~IsF(s1) THEN PanicV
                     ELSE IF IsZero(s1) THEN s0 ELSE CannotV)
    ELSE CannotV

\* `result = 0` stores the untyped constant 0, a Go int
caseMulZero == GoInt(0)
caseMul(s0, s1, f0, f1) ==
    IF f0
    THEN IF f1 THEN (IF IsF(s0) /\ IsF(s1) THEN fMul(s0, s1) ELSE PanicV)
         ELSE IF ~IsF(s0) THEN PanicV
         ELSE IF IsZero(s0) THEN caseMulZero
         ELSE IF IsOne(s0) THEN s1 ELSE CannotV
    ELSE IF f1 THEN (IF ~IsF(s1) THEN PanicV
                     ELSE IF IsZero(s1) THEN caseMulZero
                     ELSE IF IsOne(s1) THEN s0 ELSE CannotV)
    ELSE CannotV

caseDiv(s0, s1, f0, f1) ==
    IF f0
    THEN IF f1 THEN (IF IsF(s0) /\ IsF(s1) THEN fDiv(s0, s1) ELSE PanicV)
         ELSE IF ~IsF(s0) THEN PanicV
         ELSE IF IsZero(s0) THEN Num(0) ELSE CannotV
    ELSE IF f1 THEN (IF ~IsF(s1) THEN PanicV
                     ELSE IF IsZero(s1) THEN NaN
                     ELSE IF IsOne(s1) THEN s0 ELSE CannotV)
    ELSE CannotV

caseMod(s0, s1, f0, f1) ==
    IF f0
    THEN IF f1 THEN (IF IsF(s0) /\ IsF(s1) THEN mathMod(s0, s1) ELSE PanicV)
         ELSE CannotV
    ELSE IF f1 THEN (IF ~IsF(s1) THEN PanicV
                     ELSE IF IsZero(s1) THEN NaN
                     ELSE IF IsOne(s1) THEN Num(0) ELSE CannotV)
    ELSE CannotV

casePow(s0, s1, f0, f1) ==
    IF f0
    THEN IF f1 THEN (IF IsF(s0) /\ IsF(s1) THEN mathPow(s0, s1) ELSE PanicV)
         ELSE IF ~IsF(s0) THEN PanicV
         ELSE IF IsZero(s0) THEN Num(0)
         ELSE IF IsOne(s0) THEN Num(1) ELSE CannotV
    ELSE IF f1 THEN (IF ~IsF(s1) THEN PanicV
                     ELSE IF IsZero(s1) THEN Num(1)
                     ELSE IF IsOne(s1) THEN s0 ELSE CannotV)
    ELSE CannotV

caseAddNaN(s0, s1) ==
    IF ~IsNaN(s0) /\ ~IsNaN(s1) THEN fAdd(s0, s1)
    ELSE IF ~IsNaN(s0) THEN s0 ELSE s1

\* a comparison whose result for two equal symbols is always 1
sameSymbolAlwaysOne(name) == Num(1)

\* the result of a comparison of two unresolved symbols of the same name:
\* float64(1) in the cases EQ, GE and LE, float64(0) in NE, GT and LT
sameSymbolResult(name) == IF name \in {"EQ", "GE", "LE"} THEN Num(1) ELSE Num(0)

\* EQ and NE: cmp is the float comparison, same the result for two equal symbols
caseEquality(s0, s1, f0, f1, cmp(_, _), same) ==
    IF f0 /\ f1 THEN (IF IsF(s0) /\ IsF(s1) THEN Bool01(cmp(s0, s1)) ELSE PanicV)
    ELSE IF ~f0 /\ ~f1
    THEN IF ~(IsS(s0) /\ IsS(s1)) THEN PanicV
         ELSE IF s0.s = s1.s THEN same ELSE CannotV
    ELSE CannotV

\* GE, GT, LE and LT
caseOrder(s0, s1, f0, f1, cmp(_, _), same) ==
    IF f0 /\ f1
    THEN IF ~IsF(s0) THEN PanicV
         ELSE IF IsNaN(s0) THEN NaN
         ELSE IF ~IsF(s1) THEN PanicV
         ELSE IF IsNaN(s1) THEN NaN
         ELSE Bool01(cmp(s0, s1))
    ELSE IF ~f0 /\ ~f1
    THEN IF ~(IsS(s0) /\ IsS(s1)) THEN PanicV
         ELSE IF s0.s = s1.s THEN same ELSE CannotV
    ELSE CannotV

\* MAX, MIN, MAXNAN and MINNAN: pick is math.Max or math.Min; keepNaN is
\* TRUE when a NaN operand is the result, FALSE when the other operand is
caseExtremum(s0, s1, f0, f1, pick(_, _), keepNaN) ==
    IF f0 /\ f1
    THEN IF ~IsF(s0) THEN PanicV
         ELSE IF IsNaN(s0) THEN (IF keepNaN THEN s0 ELSE s1)
         ELSE IF ~IsF(s1) THEN PanicV
         ELSE IF IsNaN(s1) THEN (IF keepNaN THEN s1 ELSE s0)
         ELSE pick(s1, s0)
    ELSE IF ~f0 /\ ~f1
    THEN IF ~(IsS(s0) /\ IsS(s1)) THEN PanicV
         ELSE IF s0.s = s1.s THEN s0 ELSE CannotV
    ELSE IF f0
    THEN IF ~IsF(s0) THEN PanicV
         ELSE IF IsNaN(s0) THEN (IF keepNaN THEN s0 ELSE s1) ELSE CannotV
    ELSE IF ~IsF(s1) THEN PanicV
         ELSE IF IsNaN(s1) THEN (IF keepNaN THEN s1 ELSE s0) ELSE CannotV

\* an IF that tests A != 0, for which NaN is true
caseIfNotZero(s0, s1, s2, f0) ==
    IF f0
    THEN IF ~IsF(s0) THEN PanicV
         ELSE IF fNe(s0, Num(0)) THEN s1 ELSE s2
    ELSE CannotV

\* A,B,C,IF
caseIf(s0, s1, s2, f0) ==
    IF f0
    THEN IF ~IsF(s0) THEN PanicV
         ELSE IF fLt(s0, Num(0)) \/ fGt(s0, Num(0)) THEN s1 ELSE s2
    ELSE CannotV

caseLimit(s0, s1, s2) ==
    IF IsNaN(s0) \/ IsNaN(s1) \/ IsNaN(s2) THEN NaN
    ELSE IF IsInf(s0, -1) \/ IsInf(s1, -1) \/ IsInf(s2, -1) THEN NaN
    ELSE IF ~(fLt(s0, s1) \/ fGt(s0, s2)) THEN s0
    ELSE NaN

\* the switch on the operator name, for the operators that leave one result
ResultOf(name, st, i0) ==
    LET s0 == At(st, i0)
        s1 == At(st, i0 + 1)
        s2 == At(st, i0 + 2)
        f0 == Fl(st, i0)
        f1 == Fl(st, i0 + 1)
    IN  CASE name = "+" -> caseAdd(s0, s1, f0, f1)
          [] name = "-" -> caseSub(s0, s1, f0, f1)
          [] name = "*" -> caseMul(s0, s1, f0, f1)
          [] name = "/" -> caseDiv(s0, s1, f0, f1)
          [] name = "%" -> caseMod(s0, s1, f0, f1)
          [] name = "POW" -> casePow(s0, s1, f0, f1)
          [] name = "ABS" -> mathAbs(s0)
          [] name = "ADDNAN" -> caseAddNaN(s0, s1)
          [] name = "ATAN" -> mathAtan(s0)
          [] name = "ATAN2" -> mathAtan2(s1, s0)
          [] name = "CEIL" -> mathCeil(s0)
          [] name = "COS" -> mathCos(s0)
          [] name = "DEG2RAD" -> Deg2Rad(s0)
          [] name = "RAD2DEG" -> Deg2Rad(s0)
          [] name = "EXP" -> mathExp(s0)
          [] name = "FLOOR" -> mathFloor(s0)
          [] name = "LOG" -> mathLog(s0)
          [] name = "SIN" -> mathSin(s0)
          [] name = "SQRT" -> mathSqrt(s0)
          [] name = "ISINF" -> Bool01(IsInf(s0, 1) \/ IsInf(s0, -1))
          [] name = "UN" -> Bool01(IsNaN(s0))
          [] name = "EQ" -> caseEquality(s0, s1, f0, f1, fEq, sameSymbolResult(name))
          [] name = "NE" -> caseEquality(s0, s1, f0, f1, fNe, sameSymbolResult(name))
          [] name = "GE" -> caseOrder(s0, s1, f0, f1, fGe, sameSymbolResult(name))
          [] name = "GT" -> caseOrder(s0, s1, f0, f1, fGt, sameSymbolResult(name))
          [] name = "LE" -> caseOrder(s0, s1, f0, f1, fLe, sameSymbolResult(name))
          [] name = "LT" -> caseOrder(s0, s1, f0, f1, fLt, sameSymbolResult(name))
          [] name = "MAX" -> caseExtremum(s0, s1, f0, f1, mathMax, TRUE)
          [] name = "MIN" -> caseExtremum(s0, s1, f0, f1, mathMin, TRUE)
          [] name = "MAXNAN" -> caseExtremum(s0, s1, f0, f1, mathMax, FALSE)
          [] name = "MINNAN" -> caseExtremum(s0, s1, f0, f1, mathMin, FALSE)
          [] name = "IF" -> caseIf(s0, s1, s2, f0)
          [] name = "LIMIT" -> caseLimit(s0, s1, s2)

-----------------------------------------------------------------------------
(* What one case of the switch leaves behind: the work area, the flags     *)
(* cannotSimplify and stackUpdated, result and additionalArgumentCount.    *)

OutErr(st, err) == [st |-> Fail(st, err), cs |-> FALSE, upd |-> TRUE, res |-> Nil, add |-> 0]
OutCannot(st) == [st |-> st, cs |-> TRUE, upd |-> FALSE, res |-> Nil, add |-> 0]
OutResult(st, res, add) == [st |-> st, cs |-> FALSE, upd |-> FALSE, res |-> res, add |-> add]
OutUpdated(st) == [st |-> st, cs |-> FALSE, upd |-> TRUE, res |-> Nil, add |-> 0]
\* a case that computed a value, a deferral or a failed type assertion
OutValue(st, v, add) ==
    CASE v.k = "panic" -> OutErr(st, Panic("interface conversion"))
      [] v.k = "cannot" -> OutCannot(st)
      [] OTHER -> OutResult(st, v, add)

SetMin(S) == CHOOSE x \in S : \A y \in S : x <= y

\* the loop `if !e.isFloat[argIdx] { cannotSimplify; break }` followed by
\* e.scratch[argIdx].(float64), over the Go indices lo..hi
ScanFloats(st, lo, hi) ==
    LET bad == {j \in lo..hi : j < 0 \/ ~Fl(st, j) \/ ~IsF(At(st, j))}
    IN  IF bad = {} THEN "ok"
        ELSE IF SetMin(bad) < 0 THEN "panic"
        ELSE IF ~Fl(st, SetMin(bad)) THEN "cannot" ELSE "panic"

\* the loop `if !e.isFloat[argIdx] { if _, ok = arity[e.scratch[argIdx].(string)]; ok
\* { cannotSimplify; break } }` over the Go indices lo..hi
ScanNonOperators(st, lo, hi) ==
    LET bad == {j \in lo..hi :
                   j < 0 \/ (~Fl(st, j) /\ (~IsS(At(st, j)) \/ IsOperator(ToStr(At(st, j).s))))}
    IN  IF bad = {} THEN "ok"
        ELSE IF SetMin(bad) < 0 \/ ~IsS(At(st, SetMin(bad))) THEN "panic"
        ELSE "cannot"

\* the count test of the windowed operators
BadCount(v) == IsNaN(v) \/ IsInf(v, 1) \/ IsInf(v, -1) \/ fLe(v, Num(0))
ErrCount(name, v) == ErrSyntax("operator requires positive finite integer", name, 0, 0, v)
ErrItems(name, n, m) == ErrSyntax("operand requires items, but only on stack", name, n, m, Nil)

\* e.scratch[lo..hi] as a sequence
Window(st, lo, hi) == [j \in 1..(hi - lo + 1) |-> At(st, lo + j - 1)]

RECURSIVE SumNonNaN(_)
SumNonNaN(items) ==
    IF items = <<>> THEN Num(0)
    ELSE IF IsNaN(items[Len(items)]) THEN SumNonNaN(SubSeq(items, 1, Len(items) - 1))
    ELSE fAdd(SumNonNaN(SubSeq(items, 1, Len(items) - 1)), items[Len(items)])
RECURSIVE SumAll(_)
SumAll(items) ==
    IF items = <<>> THEN Num(0)
    ELSE fAdd(SumAll(SubSeq(items, 1, Len(items) - 1)), items[Len(items)])
NonNaN(items) == SelectSeq(items, LAMBDA v : ~IsNaN(v))

\* sort.Float64s: ascending, NaN before every other value
SortLess(a, b) == fLt(a, b) \/ (IsNaN(a) /\ ~IsNaN(b))
RECURSIVE Insert(_, _)
Insert(sorted, v) ==
    IF sorted = <<>> THEN <<v>>
    ELSE IF SortLess(v, sorted[1]) THEN <<v>> \o sorted
    ELSE <<sorted[1]>> \o Insert(Tail(sorted), v)
RECURSIVE SortFloats(_)
SortFloats(items) ==
    IF items = <<>> THEN <<>>
    ELSE Insert(SortFloats(SubSeq(items, 1, Len(items) - 1)), items[Len(items)])

\* median(items) on the sorted items; PanicV for the empty slice
medianSorted(sorted) ==
    LET middle == Len(sorted) \div 2
    IN  IF Len(sorted) = 0 THEN PanicV
        ELSE IF Len(sorted) % 2 = 0
        THEN fDiv(fAdd(sorted[middle], sorted[middle + 1]), Num(2))
        ELSE sorted[middle + 1]
median(items) == medianSorted(SortFloats(items))
mad(items) ==
    LET med == median(items)
    IN  IF med.k = "panic" THEN PanicV
        ELSE median([i \in 1..Len(items) |-> mathAbs(fSub(items[i], med))])

RECURSIVE FoldExtremum(_, _, _)
\* the loop of SMAX (isMax) and SMIN: `if item > max { max = item }`
FoldExtremum(items, best, isMax) ==
    IF items = <<>> THEN best
    ELSE LET better == IF isMax THEN fGt(items[1], best) ELSE fLt(items[1], best)
         IN  FoldExtremum(Tail(items), IF better THEN items[1] ELSE best, isMax)

stdev(items) ==
    LET kept == NonNaN(items)
        used == Num(Len(kept))
        mean == fDiv(SumNonNaN(items), used)
        sq == [i \in 1..Len(kept) |-> fMul(fSub(kept[i], mean), fSub(kept[i], mean))]
    IN  mathSqrt(fDiv(SumAll(sq), used))

\* AVG, MEDIAN, MAD, SMIN, SMAX and STDEV: count,OP over the count items below
caseAggregate(name, st, i0) ==
    LET c == At(st, i0)
        add == Trunc(c)
        lo == i0 - add
        items == Window(st, lo, i0 - 1)
        scan == ScanFloats(st, lo, i0 - 1)
    IN  IF BadCount(c) THEN OutErr(st, ErrCount(name, c))
        ELSE IF add > st.scratchHead - 1
        THEN OutErr(st, ErrItems(name, add, st.scratchHead - 1))
        ELSE IF name \in {"MAD", "MEDIAN", "SMAX", "SMIN"} /\ add = 1
        THEN OutResult(st, At(st, i0 - 1), add)
        ELSE IF name \in {"SMAX", "SMIN"}
        THEN IF i0 - 1 < 0 THEN OutErr(st, Panic("index out of range"))
             ELSE IF ~IsF(At(st, i0 - 1)) THEN OutCannot(st)
             ELSE LET sc == ScanFloats(st, lo, i0 - 2)
                  IN  IF sc = "panic" THEN OutErr(st, Panic("interface conversion"))
                      ELSE IF sc = "cannot" THEN OutCannot(st)
                      ELSE OutResult(st, FoldExtremum(Window(st, lo, i0 - 2), At(st, i0 - 1),
                                                     name = "SMAX"), add)
        ELSE IF scan = "panic" THEN OutErr(st, Panic("interface conversion"))
        ELSE IF scan = "cannot" THEN OutCannot(st)
        ELSE CASE name = "AVG" ->
                    OutResult(st, fDiv(SumNonNaN(items), Num(Len(NonNaN(items)))), add)
               [] name = "STDEV" -> OutResult(st, stdev(items), add)
               [] name = "MEDIAN" -> OutValue(st, median(items), add)
               [] name = "MAD" -> OutValue(st, mad(items), add)

\* n,m,PERCENT: the nearest-rank percentile n of the m items below
casePercent(name, st, i0) ==
    LET percent == At(st, i0)
        c == At(st, i0 + 1)
        add == Trunc(c)
        items == Window(st, i0 - add, i0 - 1)
        scan == ScanFloats(st, i0 - add, i0 - 1)
        idx == Trunc(mathCeil(fMul(fDiv(percent, Num(100)), Num(Len(items))))) - 1
    IN  IF BadCount(percent) THEN OutErr(st, ErrCount(name, percent))
        ELSE IF IsNaN(c) \/ IsInf(c, 1) \/ IsInf(c, -1) THEN OutErr(st, ErrCount(name, c))
        ELSE IF add > st.scratchHead - 2
        THEN OutErr(st, ErrItems(name, add, st.scratchHead - 2))
        ELSE IF add < 0 THEN OutErr(st, Panic("makeslice: cap out of range"))
        ELSE IF scan = "panic" THEN OutErr(st, Panic("interface conversion"))
        ELSE IF scan = "cannot" THEN OutCannot(st)
        ELSE IF idx < 0 \/ idx >= Len(items) THEN OutErr(st, Panic("index out of range"))
        ELSE OutResult(st, SortFloats(items)[idx + 1], add)

-----------------------------------------------------------------------------
(* The operators that rearrange the stack themselves (stackUpdated) *)

\* the header shared by COPY, INDEX, REV and SORT: the count test and the
\* test that the stack holds count items below the count; "" when both pass
CountHeader(name, st, i0) ==
    LET c == At(st, i0)
    IN  IF BadCount(c) THEN ErrCount(name, c)
        ELSE IF Trunc(c) > st.scratchHead - 1
        THEN ErrItems(name, Trunc(c), st.scratchHead - 1)
        ELSE NilErr

\* make([]interface{}, n) and make([]bool, n) with the old contents copied in
Grow(st, n) ==
    [st EXCEPT !.scratch = [j \in 1..n |-> IF j <= Len(st.scratch) THEN st.scratch[j] ELSE Nil],
               !.isFloat = [j \in 1..n |-> IF j <= Len(st.isFloat) THEN st.isFloat[j] ELSE FALSE],
               !.grew = TRUE]

\* the guard of the growth in COPY, for the head h after the count is dropped
copyMustGrow(h, add, cap) == h - 1 + add > cap

caseCopy(name, st, i0) ==
    LET add == Trunc(At(st, i0))
        lo == i0 - add
        hdr == CountHeader(name, st, i0)
        scan == ScanNonOperators(st, lo, i0 - 1)
        h == st.scratchHead - 1
        g == IF copyMustGrow(h, add, Len(st.scratch)) THEN Grow(st, h + add) ELSE st
    IN  IF hdr.kind # "nil" THEN OutErr(st, hdr)
        ELSE IF scan = "panic" THEN OutErr(st, Panic("interface conversion"))
        ELSE IF scan = "cannot" THEN OutCannot(st)
        ELSE IF h + add > Len(g.scratch) THEN OutErr(g, Panic("index out of range"))
        ELSE OutUpdated([g EXCEPT
                !.scratch = [j \in 1..Len(g.scratch) |->
                                IF h < j /\ j <= h + add THEN g.scratch[lo + (j - h)]
                                ELSE g.scratch[j]],
                !.isFloat = [j \in 1..Len(g.isFloat) |->
                                IF h < j /\ j <= h + add THEN g.isFloat[lo + (j - h)]
                                ELSE g.isFloat[j]],
                !.scratchHead = h + add])

caseIndex(name, st, i0) ==
    LET add == Trunc(At(st, i0))
        hdr == CountHeader(name, st, i0)
        scan == ScanNonOperators(st, i0 - add, i0 - 1)
    IN  IF hdr.kind # "nil" THEN OutErr(st, hdr)
        ELSE IF scan = "panic" THEN OutErr(st, Panic("interface conversion"))
        ELSE IF scan = "cannot" THEN OutCannot(st)
        ELSE OutUpdated([st EXCEPT
                !.scratch[st.scratchHead] = At(st, st.scratchHead - add - 1),
                !.isFloat[st.scratchHead] = Fl(st, st.scratchHead - add - 1)])

caseRev(name, st, i0) ==
    LET add == Trunc(At(st, i0))
        lo == i0 - add
        hdr == CountHeader(name, st, i0)
        scan == ScanNonOperators(st, lo, i0 - 1)
    IN  IF hdr.kind # "nil" THEN OutErr(st, hdr)
        ELSE IF scan = "panic" THEN OutErr(st, Panic("interface conversion"))
        ELSE IF scan = "cannot" THEN OutCannot(st)
        ELSE OutUpdated([st EXCEPT
                !.scratch = [j \in 1..Len(st.scratch) |->
                                IF lo < j /\ j <= i0 THEN st.scratch[lo + i0 + 1 - j]
                                ELSE st.scratch[j]],
                !.isFloat = [j \in 1..Len(st.isFloat) |->
                                IF lo < j /\ j <= i0 THEN IsF(st.scratch[lo + i0 + 1 - j])
                                ELSE st.isFloat[j]],
                !.scratchHead = st.scratchHead - 1])

\* the index into the sorted items that SORT writes back to stack index argIdx
sortSource(argIdx, i0, add) == argIdx + i0 - add

caseSort(name, st, i0) ==
    LET add == Trunc(At(st, i0))
        lo == i0 - add
        hdr == CountHeader(name, st, i0)
        scan == ScanFloats(st, lo, i0 - 1)
        items == SortFloats(Window(st, lo, i0 - 1))
    IN  IF hdr.kind # "nil" THEN OutErr(st, hdr)
        ELSE IF scan = "panic" THEN OutErr(st, Panic("interface conversion"))
        ELSE IF scan = "cannot" THEN OutCannot(st)
        ELSE IF \E a \in lo..(i0 - 1) : sortSource(a, i0, add) >= add
        THEN OutErr(st, Panic("index out of range"))
        ELSE OutUpdated([st EXCEPT
                !.scratch = [j \in 1..Len(st.scratch) |->
                                IF lo < j /\ j <= i0 THEN items[sortSource(j - 1, i0, add) + 1]
                                ELSE st.scratch[j]],
                !.isFloat = [j \in 1..Len(st.isFloat) |->
                                IF lo < j /\ j <= i0 THEN TRUE ELSE st.isFloat[j]],
                !.scratchHead = st.scratchHead - 1])

RECURSIVE NextPow2(_, _)
NextPow2(c, n) == IF c >= n THEN c ELSE NextPow2(2 * c, n)
\* cap(items) after len appends of one element to a nil []interface{}:
\* the runtime doubles the capacity of a small slice
AppendCap(len) == IF len = 0 THEN 0 ELSE NextPow2(1, len)

\* n,m,ROLL
caseRoll(name, st, i0) ==
    LET cn == At(st, i0)
        cm == At(st, i0 + 1)
        n == Trunc(cn)
        m == Trunc(cm)
        lo == i0 - n
        scan == ScanNonOperators(st, lo, i0 - 1)
        w == Window(st, lo, i0 - 1)
        \* items[i], Go index, of the tripled window; nil between len and cap
        item(i) == IF i < 3 * n THEN w[(i % n) + 1] ELSE Nil
        first == n - m
        last == first + n
    IN  IF BadCount(cn) THEN OutErr(st, ErrCount(name, cn))
        ELSE IF n > st.scratchHead - 1 THEN OutErr(st, ErrItems(name, n, st.scratchHead - 1))
        ELSE IF IsNaN(cm) \/ IsInf(cm, 1) \/ IsInf(cm, -1) THEN OutErr(st, ErrCount(name, cm))
        ELSE IF m > st.scratchHead - 1 THEN OutErr(st, ErrItems(name, m, st.scratchHead - 1))
        ELSE IF scan = "panic" THEN OutErr(st, Panic("index out of range"))
        ELSE IF scan = "cannot" THEN OutCannot(st)
        ELSE IF first < 0 \/ last > AppendCap(3 * n)
        THEN OutErr(st, Panic("slice bounds out of range"))
        ELSE OutUpdated([st EXCEPT
                !.scratch = [j \in 1..Len(st.scratch) |->
                                IF lo < j /\ j <= i0 THEN item(first + (j - 1 - lo))
                                ELSE st.scratch[j]],
                !.scratchHead = st.scratchHead - 2])

\* a mean that counts the NaN elements TRENDNAN leaves out of the sum
seriesMeanCountsNaN(name, tail) ==
    IF name = "TREND" THEN fDiv(SumAll(tail), Num(Len(tail)))
    ELSE fDiv(SumNonNaN(tail), Num(Len(tail)))

\* total / float64(used) of the loops of TREND and TRENDNAN over the tail
seriesMean(name, tail) ==
    IF name = "TREND" THEN fDiv(SumAll(tail), Num(Len(tail)))
    ELSE fDiv(SumNonNaN(tail), Num(Len(NonNaN(tail))))

\* label,count,TREND and label,count,TRENDNAN; bindings are the coerced bindings
caseTrend(name, st, i0, bindings, secondsPerInterval) ==
    LET v == At(st, i0 + 1)
        add == Trunc(mathCeil(fDiv(v, secondsPerInterval)))
        lab == At(st, i0)
        key == ToStr(lab.s)
        series == bindings[key].xs
        tail == SubSeq(series, Len(series) - add + 1, Len(series))
        mean == seriesMean(name, tail)
        h == st.scratchHead - 2
    IN  IF IsNaN(v) \/ fLe(v, Num(0)) \/ IsInf(v, 1) THEN OutErr(st, ErrCount(name, v))
        ELSE IF ~IsS(lab)
        THEN OutErr(st, ErrSyntax("operator requires label but found", name, 0, 0, lab))
        ELSE IF key \notin DOMAIN bindings THEN OutCannot(st)
        ELSE IF bindings[key].gk # "[]float64"
        THEN OutErr(st, ErrSyntax("operand specifies label, which is not a series of numbers",
                                  name, 0, 0, lab))
        ELSE IF add > Len(series)
        THEN OutErr(st, ErrSyntax("operand specifies values, but only available",
                                  name, add, Len(series), Nil))
        ELSE OutUpdated([st EXCEPT
                !.openBindings = Bump(st.openBindings, key, -1),
                !.scratch[h + 1] = mean,
                !.isFloat[h + 1] = TRUE,
                !.scratchHead = h + 1])

\* the switch on the operator token, entered when cannotSimplify is false
RunOperator(name, st, i0, bindings, secondsPerInterval) ==
    CASE name \in {"AVG", "MAD", "MEDIAN", "SMAX", "SMIN", "STDEV"} -> caseAggregate(name, st, i0)
      [] name = "PERCENT" -> casePercent(name, st, i0)
      [] name = "COPY" -> caseCopy(name, st, i0)
      [] name = "INDEX" -> caseIndex(name, st, i0)
      [] name = "REV" -> caseRev(name, st, i0)
      [] name = "ROLL" -> caseRoll(name, st, i0)
      [] name = "SORT" -> caseSort(name, st, i0)
      [] name \in {"TREND", "TRENDNAN"} -> caseTrend(name, st, i0, bindings, secondsPerInterval)
      [] name = "DEPTH" -> OutUpdated(Push(st, GoInt(st.scratchHead), TRUE))
      [] name = "DUP" ->
            OutUpdated(Push(st, At(st, st.scratchHead - 1), Fl(st, st.scratchHead - 1)))
      [] name = "EXC" ->
            OutUpdated([st EXCEPT !.scratch[i0 + 1] = At(st, i0 + 1),
                                  !.scratch[i0 + 2] = At(st, i0),
                                  !.isFloat[i0 + 1] = Fl(st, i0 + 1),
                                  !.isFloat[i0 + 2] = Fl(st, i0)])
      [] name = "POP" -> OutUpdated([st EXCEPT !.scratchHead = st.scratchHead - 1])
      [] OTHER -> OutValue(st, ResultOf(name, st, i0), 0)

\* the test before the switch: scratchHead < opArity.popCount
notEnoughParameters(head, popCount) == head < popCount

\* what follows the switch, whose outcome is out: the push of the token
\* when the operator could not be simplified, else the pop of the operands
\* and the push of the result, unless the case updated the stack itself
afterSwitch(out, tok, popCount) ==
    LET h == out.st.scratchHead - (popCount + out.add)
    IN  IF out.st.err.kind # "nil" THEN out.st
        ELSE IF out.cs THEN Push(out.st, Str(tok), FALSE)
        ELSE IF out.upd THEN out.st
        ELSE [out.st EXCEPT !.scratch[h + 1] = out.res,
                            !.isFloat[h + 1] = IsF(out.res),
                            !.scratchHead = h + 1]

\* an error that reports the number of operands found missing
notEnoughParametersMissing(name, popCount) ==
    ErrSyntax("not enough parameters: operator requires operands", name, popCount - 1, 0, Nil)

\* newErrSyntax("not enough parameters: operator %s requires %d operands", ...)
notEnoughParametersError(name, popCount) ==
    ErrSyntax("not enough parameters: operator requires operands", name, popCount, 0, Nil)

\* an operator token: the arity test, the float window, the non-operator
\* window, the switch, and the push of the token or of the result
stepOperator(name, tok, st, bindings, secondsPerInterval) ==
    LET opArity == arity[name]
        head == st.scratchHead
        fl == head - opArity.floatOffset
        no == head - opArity.nonOperatorOffset
        floatsMissing == \E j \in fl..(fl + opArity.floatCount - 1) : ~IsF(At(st, j))
        nonOp == ScanNonOperators(st, no, no + opArity.nonOperatorCount - 1)
    IN  IF notEnoughParameters(head, opArity.popCount)
        THEN Fail(st, notEnoughParametersError(name, opArity.popCount))
        ELSE IF nonOp = "panic" THEN Fail(st, Panic("interface conversion"))
        ELSE IF floatsMissing \/ nonOp = "cannot" THEN Push(st, Str(tok), FALSE)
        ELSE afterSwitch(RunOperator(name, st, head - opArity.popCount, bindings,
                                     secondsPerInterval),
                         tok, opArity.popCount)

-----------------------------------------------------------------------------
(* Time.  The clock and the local time zone are inputs of a pass: now is   *)
(* time.Now().Unix() and zone the offset in seconds of the local zone.     *)

\* Go integer division, which truncates toward zero
GoDiv(a, b) == IF a >= 0 THEN a \div b ELSE -((-a) \div b)

isFirstOfDay(jSeconds, secondsPerInterval) ==
    LET js == Trunc(jSeconds)
        tLeft == GoDiv(js, 86400) * 86400
        tRight == tLeft + Trunc(secondsPerInterval)
    IN  IF js < tLeft \/ js > tRight THEN Num(0) ELSE Num(1)

\* the civil date of day number days (days since 1970-01-01), as time.Time
\* computes it for jTime.Date(), jTime.Day() and jTime.Weekday()
CivilDate(days) ==
    LET z == days + 719468
        era == z \div 146097
        doe == z - era * 146097
        yoe == (doe - doe \div 1460 + doe \div 36524 - doe \div 146096) \div 365
        doy == doe - (365 * yoe + yoe \div 4 - yoe \div 100)
        mp == (5 * doy + 2) \div 153
    IN  [day |-> doy - (153 * mp + 2) \div 5 + 1,
         month |-> IF mp < 10 THEN mp + 3 ELSE mp - 9,
         weekday |-> (days + 4) % 7]

\* the time values simplify computes before its loop
TimeOf(zTimeSeconds, zone) ==
    LET secs == Trunc(zTimeSeconds) + zone
    IN  [jTimeSeconds |-> Num(secs), date |-> CivilDate(secs \div 86400)]

\* a time-dependent name other than NOW: its value when TIME is bound
timeValue(name, cfg) ==
    LET first == isFirstOfDay(cfg.jTimeSeconds, cfg.secondsPerInterval)
    IN  CASE name = "TIME" -> cfg.zTimeSeconds
          [] name = "LTIME" -> cfg.jTimeSeconds
          [] name = "NEWDAY" -> first
          [] name = "NEWMONTH" -> IF cfg.date.day = 1 THEN first ELSE Num(0)
          [] name = "NEWWEEK" -> IF cfg.date.weekday = 0 THEN first ELSE Num(0)
          [] name = "NEWYEAR" ->
                IF cfg.date.month = 1 /\ cfg.date.day = 1 THEN first ELSE Num(0)

namedConstant(name, secondsPerInterval) ==
    CASE name = "DAY" -> Num(86400)
      [] name = "HOUR" -> Num(3600)
      [] name = "MINUTE" -> Num(60)
      [] name = "WEEK" -> Num(604800)
      [] name = "INF" -> PosInf
      [] name = "NEGINF" -> NegInf
      [] name = "UNKN" -> NaN
      [] name = "STEPWIDTH" -> secondsPerInterval

\* one iteration of the loop over e.tokens: token tok at Go index tokIdx.
\* cfg holds what the pass fixed before the loop: the coerced bindings,
\* performTimeSubstitutions, secondsPerInterval, nowSeconds, isTimeSet,
\* zTimeSeconds, jTimeSeconds and the local date.
stepToken(tok, tokIdx, st, cfg) ==
    LET name == ToStr(tok.s)
    IN  CASE IsF(tok) -> Push(st, tok, TRUE)
          [] ~IsS(tok) ->
                Fail(st, ErrSyntax("unexpected token type at position", "", tokIdx + 1, 0, tok))
          [] name \in {"DAY", "HOUR", "MINUTE", "WEEK", "INF", "NEGINF", "UNKN", "STEPWIDTH"} ->
                Push(st, namedConstant(name, cfg.secondsPerInterval), TRUE)
          [] name \in {"TIME", "LTIME", "NEWDAY", "NEWMONTH", "NEWWEEK", "NEWYEAR"} ->
                IF cfg.isTimeSet THEN Push(st, timeValue(name, cfg), TRUE)
                ELSE PushOpen(st, tok.s, "TIME")
          [] name = "NOW" ->
                IF cfg.performTimeSubstitutions THEN Push(st, cfg.nowSeconds, TRUE)
                ELSE PushOpen(st, tok.s, name)
          [] name = "" -> Fail(st, ErrSyntax("empty token", "", 0, 0, Nil))
          [] IsOperator(name) ->
                stepOperator(name, tok.s, st, cfg.bindings, cfg.secondsPerInterval)
          [] IsFloatText(tok.s) -> Push(st, ParseFloat(tok.s), TRUE)
          [] name \in DOMAIN cfg.bindings ->
                IF cfg.bindings[name].gk = "float64"
                THEN Push(st, cfg.bindings[name].x, TRUE)
                ELSE PushOpen(st, tok.s, name)
          [] OTHER -> PushOpen(st, tok.s, name)

RECURSIVE runTokens(_, _, _, _)
\* the loop over e.tokens from Go index tokIdx on; it stops at the first error
runTokens(tokens, tokIdx, st, cfg) ==
    IF tokIdx >= Len(tokens) \/ st.err.kind # "nil" THEN st
    ELSE runTokens(tokens, tokIdx + 1, stepToken(tokens[tokIdx + 1], tokIdx, st, cfg), cfg)

-----------------------------------------------------------------------------
(* Binding coercion.  A caller's binding is [gk, x, xs]: gk names its Go   *)
(* type, x is the value of a scalar and xs the elements of a slice (each   *)
(* element again a scalar binding).  A coerced binding has gk "float64"    *)
(* with the float x, or gk "[]float64" with the floats xs.                 *)

ScalarKinds == {"float64", "float32", "int", "int64", "int32"}
SliceKinds == {"[]float64", "[]int", "[]float32", "[]int32", "[]int64"}

Scalar(gk, v) == [gk |-> gk, x |-> v, xs |-> <<>>]
Float64(v) == Scalar("float64", v)
Series(vs) == [gk |-> "[]float64", x |-> Nil, xs |-> vs]

\* float64(v) for the value of a numeric scalar
ToFloat(v) == IF v.k = "int" THEN Num(v.n) ELSE v

\* coerceValueToFloat64: the value, or the Go type it rejects
coerceValueToFloat64(b) ==
    IF b.gk \in ScalarKinds THEN [ok |-> TRUE, val |-> Float64(ToFloat(b.x)), t |-> ""]
    ELSE [ok |-> FALSE, val |-> b, t |-> b.gk]

\* coerceValuesToFloat64
coerceValuesToFloat64(b) ==
    LET bad == {i \in 1..Len(b.xs) : ~coerceValueToFloat64(b.xs[i]).ok}
    IN  IF b.gk \in SliceKinds
        THEN [ok |-> TRUE, val |-> Series([i \in 1..Len(b.xs) |-> ToFloat(b.xs[i].x)]), t |-> ""]
        ELSE IF b.gk = "[]interface{}"
        THEN IF bad = {}
             THEN [ok |-> TRUE, val |-> Series([i \in 1..Len(b.xs) |-> ToFloat(b.xs[i].x)]),
                   t |-> ""]
             ELSE [ok |-> FALSE, val |-> b, t |-> b.xs[SetMin(bad)].gk]
        ELSE [ok |-> FALSE, val |-> b, t |-> b.gk]

IsSliceKind(gk) == gk \in SliceKinds \/ gk = "[]interface{}" \/ gk = "[]string"
coerceOne(b) == IF IsSliceKind(b.gk) THEN coerceValuesToFloat64(b) ELSE coerceValueToFloat64(b)

\* coerceMapValuesToFloat64: every outcome [err, bindings] the call can
\* have.  The map is ranged over in an unspecified order, so any rejected
\* key can be the one reported; reflect.TypeOf(nil).Kind() panics.
coerceMapValuesToFloat64(bindings) ==
    LET keys == DOMAIN bindings
        nils == {k \in keys : bindings[k].gk = "nil"}
        bad == {k \in keys \ nils : ~coerceOne(bindings[k]).ok}
    IN  IF nils \cup bad = {}
        THEN {[err |-> NilErr, bindings |-> [k \in keys |-> coerceOne(bindings[k]).val]]}
        ELSE {[err |-> ErrBadBindingType(k, coerceOne(bindings[k]).t), bindings |-> bindings] :
                 k \in bad}
             \cup (IF nils = {} THEN {}
                   ELSE {[err |-> Panic("nil pointer dereference"), bindings |-> bindings]})

-----------------------------------------------------------------------------
(* simplify *)

EmptyMap == [k \in {} |-> 0]

\* the work area a pass starts from: the receiver's arrays as they are
WorkArea(scratch, isFloat, scratchHead, openBindings) ==
    [scratch |-> scratch, isFloat |-> isFloat, scratchHead |-> scratchHead,
     openBindings |-> openBindings, err |-> NilErr, grew |-> FALSE]

\* e.scratchHead = 0; e.openBindings = make(map[string]int)
resetWorkArea(st) == [st EXCEPT !.scratchHead = 0, !.openBindings = EmptyMap]

\* Expression.simplify on the tokens and work area of the receiver; co is
\* the outcome of the coercion of the bindings, env the clock and the zone
simplify(tokens, st, performTimeSubstitutions, secondsPerInterval, co, env) ==
    LET st0 == resetWorkArea(st)
        timeBound == performTimeSubstitutions /\ "TIME" \in DOMAIN co.bindings
        isTimeSet == timeBound /\ co.bindings["TIME"].gk = "float64"
        zTimeSeconds == IF isTimeSet THEN co.bindings["TIME"].x ELSE Num(0)
        tm == TimeOf(zTimeSeconds, env.zone)
        cfg == [bindings |-> co.bindings,
                performTimeSubstitutions |-> performTimeSubstitutions,
                secondsPerInterval |-> secondsPerInterval,
                nowSeconds |-> Num(env.now),
                isTimeSet |-> isTimeSet,
                zTimeSeconds |-> zTimeSeconds,
                jTimeSeconds |-> tm.jTimeSeconds,
                date |-> tm.date]
    IN  IF co.err.kind # "nil" THEN Fail(st, co.err)
        ELSE IF timeBound /\ ~isTimeSet
        THEN Fail(st0, ErrSyntax("TIME ought to be bound to number rather than", "", 0, 0, Nil))
        ELSE runTokens(tokens, 0, st0, cfg)

-----------------------------------------------------------------------------
(* Expressions.  An Expression struct is a record whose slice and map      *)
(* fields hold heap addresses: tokens is [ref, len] (its capacity is the   *)
(* length of the array at ref), scratch and isFloat are arrays used whole, *)
(* openBindings is a map, 0 for the nil map.                               *)

\* write content at address a, which is an address in use or the next free one
Store(h, a, content) == IF a <= Len(h) THEN [h EXCEPT ![a] = content] ELSE Append(h, content)

tokensOf(h, e) == [i \in 1..e.tokens.len |-> h[e.tokens.ref][i]]
openBindingsOf(h, e) == IF e.openBindings = 0 THEN EmptyMap ELSE h[e.openBindings]

\* a count test that misses the symbols that occur once
isOpenCountAboveOne(v) == v > 1

\* the test `v > 0` of Evaluate and OpenBindings
isOpenCount(v) == v > 0

\* Expression.OpenBindings
OpenBindings(h, e) ==
    {k \in DOMAIN openBindingsOf(h, e) : isOpenCount(openBindingsOf(h, e)[k])}

\* Expression.String
String(h, e) ==
    LET toks == tokensOf(h, e)
    IN  Join([i \in 1..Len(toks) |-> TokenString(toks[i])], e.delimiter)

\* a Partial that leaves out make and copy and slices the receiver's array
partialTokensShared(h, e) == e.tokens.ref

\* the address of the token array of the Expression Partial builds:
\* make([]interface{}, len(e.tokens)) is a new array, allocated fourth
partialTokensRef(h, e) == Len(h) + 4

\* a Partial whose product kept the work arrays of the receiver
afterPartialPassSharing(h, e, st) ==
    LET toks == tokensOf(h, e)
        aScratch == e.scratch
        aIsFloat == e.isFloat
        aOpen == Len(h) + 3
        aTokens == partialTokensRef(h, e)
        exp == [delimiter |-> e.delimiter,
                openBindings |-> aOpen,
                secondsPerInterval |-> e.secondsPerInterval,
                tokens |-> [ref |-> aTokens, len |-> st.scratchHead],
                performTimeSubstitutions |-> e.performTimeSubstitutions,
                scratchSize |-> e.scratchSize,
                scratchHead |-> st.scratchHead,
                scratch |-> aScratch,
                isFloat |-> aIsFloat]
        residual == [j \in 1..Len(toks) |->
                        IF j <= st.scratchHead THEN st.scratch[j] ELSE toks[j]]
        h1 == Store(Store(Store(h \o <<<<>>, <<>>>>, aScratch, st.scratch), aIsFloat, st.isFloat),
                    aOpen, st.openBindings)
    IN  IF st.err.kind # "nil" THEN [heap |-> h, exp |-> e, err |-> st.err]
        ELSE IF st.scratchHead > Len(toks)
        THEN [heap |-> h, exp |-> e, err |-> Panic("slice bounds out of range")]
        ELSE [heap |-> Store(h1, aTokens, residual), exp |-> exp, err |-> NilErr]

\* Expression.Partial once exp.simplify has returned with the work area st
afterPartialPass(h, e, st) ==
    LET toks == tokensOf(h, e)
        aScratch == Len(h) + 1
        aIsFloat == Len(h) + 2
        aOpen == Len(h) + 3
        aTokens == partialTokensRef(h, e)
        exp == [delimiter |-> e.delimiter,
                openBindings |-> aOpen,
                secondsPerInterval |-> e.secondsPerInterval,
                tokens |-> [ref |-> aTokens, len |-> st.scratchHead],
                performTimeSubstitutions |-> e.performTimeSubstitutions,
                scratchSize |-> e.scratchSize,
                scratchHead |-> st.scratchHead,
                scratch |-> aScratch,
                isFloat |-> aIsFloat]
        residual == [j \in 1..Len(toks) |->
                        IF j <= st.scratchHead THEN st.scratch[j] ELSE toks[j]]
        h1 == Store(Store(Store(h, aScratch, st.scratch), aIsFloat, st.isFloat),
                    aOpen, st.openBindings)
    IN  IF st.err.kind # "nil" THEN [heap |-> h, exp |-> e, err |-> st.err]
        ELSE IF st.scratchHead > Len(toks)
        THEN [heap |-> h, exp |-> e, err |-> Panic("slice bounds out of range")]
        ELSE [heap |-> Store(h1, aTokens, residual), exp |-> exp, err |-> NilErr]

\* Expression.Partial: [heap, exp, err], exp the new struct when err is nil
Partial(h, e, co, env) ==
    afterPartialPass(h, e,
        simplify(tokensOf(h, e),
                 WorkArea([j \in 1..e.scratchSize |-> Nil],
                          [j \in 1..e.scratchSize |-> FALSE], 0, EmptyMap),
                 FALSE, e.secondsPerInterval, co, env))

\* an Evaluate that counts the remaining items before it looks for open
\* bindings
evaluateResultCountFirst(st) ==
    LET open == {k \in DOMAIN st.openBindings : st.openBindings[k] > 0}
    IN  IF st.scratchHead # 1
        THEN [val |-> Num(0), err |-> ErrSyntax("extra parameters", "", 0, 0, Nil)]
        ELSE IF open # {} THEN [val |-> Num(0), err |-> ErrOpenBindings(open)]
        ELSE IF ~IsF(st.scratch[1])
        THEN [val |-> Num(0), err |-> ExpectedFloat(st.scratch[1])]
        ELSE [val |-> st.scratch[1], err |-> NilErr]

\* what Evaluate returns once simplify has returned without error
evaluateResult(st) ==
    LET open == {k \in DOMAIN st.openBindings : isOpenCount(st.openBindings[k])}
    IN  IF open # {} THEN [val |-> Num(0), err |-> ErrOpenBindings(open)]
        ELSE IF st.scratchHead # 1
        THEN [val |-> Num(0), err |-> ErrSyntax("extra parameters", "", 0, 0, Nil)]
        ELSE IF ~IsF(st.scratch[1])
        THEN [val |-> Num(0), err |-> ExpectedFloat(st.scratch[1])]
        ELSE [val |-> st.scratch[1], err |-> NilErr]

\* Expression.Evaluate once e.simplify has returned with the work area st
afterEvaluatePass(h, e, co, st) ==
    LET aOpen == Len(h) + 1
        aScratch == IF st.grew THEN Len(h) + 2 ELSE e.scratch
        aIsFloat == IF st.grew THEN Len(h) + 3 ELSE e.isFloat
        e1 == [e EXCEPT !.openBindings = aOpen, !.scratchHead = st.scratchHead,
                        !.scratch = aScratch, !.isFloat = aIsFloat]
        h1 == Store(Store(Store(h, aOpen, st.openBindings), aScratch, st.scratch),
                    aIsFloat, st.isFloat)
        res == evaluateResult(st)
    IN  IF co.err.kind # "nil"
        THEN [heap |-> h, e |-> e, val |-> Num(0), err |-> co.err, pass |-> co.err]
        ELSE IF st.err.kind # "nil"
        THEN [heap |-> h1, e |-> e1, val |-> Num(0), err |-> st.err, pass |-> st.err]
        ELSE [heap |-> h1, e |-> e1, val |-> res.val, err |-> res.err, pass |-> NilErr]

\* Expression.Evaluate: [heap, e, val, err, pass], e the receiver after the
\* call and pass the error of the simplify pass
Evaluate(h, e, co, env) ==
    afterEvaluatePass(h, e, co,
        simplify(tokensOf(h, e),
                 WorkArea(h[e.scratch], h[e.isFloat], e.scratchHead, openBindingsOf(h, e)),
                 e.performTimeSubstitutions, e.secondsPerInterval, co, env))

DefaultDelimiter == ","
DefaultSecondsPerInterval == 300
TimeNames == {"NOW", "TIME", "LTIME", "NEWDAY", "NEWWEEK", "NEWMONTH", "NEWYEAR"}

\* New(someExpression, Delimiter(o.delimiter), SecondsPerInterval(o.seconds)):
\* [heap, exp, err]
New(h, someExpression, o) ==
    LET tokens == Split(someExpression, o.delimiter)
        names == [i \in 1..Len(tokens) |-> ToStr(tokens[i])]
        scratchSize == Len(tokens) + Cardinality({i \in 1..Len(tokens) : names[i] = "DUP"})
        e == [delimiter |-> o.delimiter,
              openBindings |-> 0,
              secondsPerInterval |-> Num(o.seconds),
              tokens |-> [ref |-> Len(h) + 1, len |-> Len(tokens)],
              performTimeSubstitutions |-> \E i \in 1..Len(tokens) : names[i] \in TimeNames,
              scratchSize |-> scratchSize,
              scratchHead |-> 0,
              scratch |-> Len(h) + 2,
              isFloat |-> Len(h) + 3]
        h1 == h \o <<[i \in 1..Len(tokens) |-> Str(tokens[i])],
                     [j \in 1..scratchSize |-> Nil],
                     [j \in 1..scratchSize |-> FALSE]>>
        nilBindings == [err |-> NilErr, bindings |-> EmptyMap]
    IN  IF someExpression = <<>>
        THEN [heap |-> h, exp |-> e, err |-> ErrSyntax("empty expression", "", 0, 0, Nil)]
        ELSE IF IsOperator(o.delimiter)
        THEN [heap |-> h, exp |-> e,
              err |-> ErrSyntax("cannot use operator for delimiter", o.delimiter, 0, 0, Nil)]
        ELSE IF o.seconds <= 0
        THEN [heap |-> h, exp |-> e,
              err |-> ErrSyntax("cannot use seconds as interval", "", o.seconds, 0, Nil)]
        ELSE Partial(h1, e, nilBindings, [now |-> 0, zone |-> 0])

-----------------------------------------------------------------------------
(* The program as a state machine: a client calls New once on text, then   *)
(* Partial and Evaluate on the Expressions it holds.  String and           *)
(* OpenBindings only read an Expression: they are the operators above,     *)
(* applied to the state before and after a call.                           *)

MaxLen == 3
MaxCalls == 3

\* the tokens a text is built from, as character sequences
Tok0 == <<"0">>
Tok1 == <<"1">>
TokX == <<"x">>
TokY == <<"y">>
TokAdd == <<"+">>
TokMul == <<"*">>
TokDiv == <<"/">>
TokPop == <<"P", "O", "P">>
TokDepth == <<"D", "E", "P", "T", "H">>
TokAbs == <<"A", "B", "S">>
TokIf == <<"I", "F">>
TokEq == <<"E", "Q">>
TokDup == <<"D", "U", "P">>

Symbols == {"x", "y"}

RECURSIVE TokenSeqs(_, _)
\* the sequences of at most n tokens of the alphabet
TokenSeqs(alphabet, n) ==
    IF n = 0 THEN {<<>>}
    ELSE LET shorter == TokenSeqs(alphabet, n - 1)
         IN  shorter \cup {Append(ts, t) : ts \in shorter, t \in alphabet}

Texts(alphabet, n) == {Join(ts, DefaultDelimiter) : ts \in TokenSeqs(alphabet, n)}

\* the bindings a client passes: numbers for some of the symbols of the
\* text, or a value of a type the coercion rejects
namesOf(cs) == LET toks == Split(cs, DefaultDelimiter) IN {ToStr(toks[i]) : i \in 1..Len(toks)}
symbolsOf(cs) == namesOf(cs) \cap Symbols
BoundValues == {Float64(Num(0))}

\* the series a client binds to a label: []float64 of at most MaxSeries
\* elements, NaN among them
Labels == {"s"}
labelsOf(cs) == namesOf(cs) \cap Labels
MaxSeries == 2
SeriesElements == {Num(1), NaN}
Slice(gk, ek, vs) == [gk |-> gk, x |-> Nil, xs |-> [i \in 1..Len(vs) |-> Scalar(ek, vs[i])]]
SeriesValues == {Slice("[]float64", "float64", vs) : vs \in TokenSeqs(SeriesElements, MaxSeries)}
SeriesBindings(cs) == UNION {[S -> SeriesValues] : S \in (SUBSET labelsOf(cs)) \ {{}}}

\* the names the specification calls time-dependent, and the bindings a
\* client passes for a text that holds one: numbers for TIME and for the
\* names of the text
TimeDependent == {"NOW", "TIME", "LTIME", "NEWDAY", "NEWWEEK", "NEWMONTH", "NEWYEAR", "COUNT"}
timeNamesOf(cs) == namesOf(cs) \cap TimeDependent
TimeBindings(cs) ==
    LET names == timeNamesOf(cs)
    IN  IF names = {} THEN {}
        ELSE UNION {[S -> BoundValues] : S \in SUBSET (names \cup {"TIME"})}

\* the values of every kind a client can bind to the symbol v: the scalars
\* and slices the coercion converts, and values it does not
SupportedScalars ==
    {Scalar(gk, v) : gk \in {"float64", "float32"}, v \in {Num(1), NaN}}
    \cup {Scalar(gk, GoInt(1)) : gk \in {"int", "int32", "int64"}}
ElementKind(gk) ==
    CASE gk = "[]float64" -> "float64" [] gk = "[]float32" -> "float32"
      [] gk = "[]int" -> "int" [] gk = "[]int32" -> "int32" [] gk = "[]int64" -> "int64"
SupportedSlices ==
    {[gk |-> p[1], x |-> Nil, xs |-> <<p[2]>>] :
        p \in {q \in SliceKinds \X SupportedScalars : q[2].gk = ElementKind(q[1])}}
    \cup {[gk |-> "[]interface{}", x |-> Nil, xs |-> <<b>>] : b \in SupportedScalars}
    \cup {[gk |-> gk, x |-> Nil, xs |-> <<>>] : gk \in SliceKinds \cup {"[]interface{}"}}
UnsupportedValues ==
    {Scalar("string", Str(<<"s">>)), Scalar("bool", Nil), Scalar("nil", Nil),
     [gk |-> "[]string", x |-> Nil, xs |-> <<Scalar("string", Str(<<"s">>))>>],
     [gk |-> "[]interface{}", x |-> Nil, xs |-> <<Scalar("string", Str(<<"s">>))>>],
     [gk |-> "[]interface{}", x |-> Nil, xs |-> <<Scalar("nil", Nil)>>]}
CoercionValues == SupportedScalars \cup SupportedSlices \cup UnsupportedValues
CoercionBindings(cs) ==
    IF "v" \in namesOf(cs)
    THEN {("v" :> b) : b \in CoercionValues} ELSE {}

\* the counts a client binds to the symbol n
MaxBoundCount == 4
BoundCounts == {Float64(Num(i)) : i \in 2..MaxBoundCount}
CountBindings(cs) ==
    IF "n" \in namesOf(cs)
    THEN {("n" :> b) : b \in BoundCounts} ELSE {}

Bindings(cs) ==
    UNION {[S -> BoundValues] : S \in SUBSET symbolsOf(cs)}
    \cup {("x" :> Scalar("string", Str(<<"s">>)))}
    \cup SeriesBindings(cs)
    \cup TimeBindings(cs)
    \cup CoercionBindings(cs)
    \cup CountBindings(cs)

Clock == {[now |-> 86400, zone |-> 0]}

NoRet ==
    [op |-> "none", recv |-> 0, bindings |-> EmptyMap, env |-> [now |-> 0, zone |-> 0],
     err |-> NilErr, pass |-> NilErr, val |-> Nil, obj |-> 0]

NoBucket == [called |-> FALSE]

InitWith(texts) ==
    /\ text \in texts
    /\ opts = [delimiter |-> DefaultDelimiter, seconds |-> DefaultSecondsPerInterval]
    /\ heap = <<>>
    /\ objs = <<>>
    /\ ret = NoRet
    /\ calls = 0
    /\ made = <<>>
    /\ running = <<>>
    /\ bucket = NoBucket

\* the client keeps the Expression a successful New or Partial returned
Returned(op, i, b, env, r) ==
    /\ heap' = r.heap
    /\ objs' = IF r.err.kind = "nil" THEN Append(objs, r.exp) ELSE objs
    /\ made' = IF r.err.kind = "nil"
               THEN Append(made, [op |-> op, recv |-> i, bindings |-> b])
               ELSE made
    /\ ret' = [NoRet EXCEPT !.op = op, !.recv = i, !.bindings = b, !.env = env,
                            !.err = r.err, !.pass = r.err,
                            !.obj = IF r.err.kind = "nil" THEN Len(objs) + 1 ELSE 0]

\* the receiver of Evaluate is left as the call left it
Evaluated(i, b, env, r) ==
    /\ heap' = r.heap
    /\ objs' = [objs EXCEPT ![i] = r.e]
    /\ made' = made
    /\ ret' = [NoRet EXCEPT !.op = "Evaluate", !.recv = i, !.bindings = b, !.env = env,
                            !.err = r.err, !.pass = r.pass, !.val = r.val]

CallNew ==
    /\ calls = 0
    /\ Returned("New", 0, EmptyMap, NoRet.env, New(heap, text, opts))
    /\ calls' = 1
    /\ UNCHANGED <<text, opts, running, bucket>>

CallPartial(i, b) ==
    /\ calls \in 1..(MaxCalls - 1)
    /\ \E co \in coerceMapValuesToFloat64(b), env \in Clock :
          Returned("Partial", i, b, env, Partial(heap, objs[i], co, env))
    /\ calls' = calls + 1
    /\ UNCHANGED <<text, opts, running, bucket>>

CallEvaluate(i, b) ==
    /\ calls \in 1..(MaxCalls - 1)
    /\ \E co \in coerceMapValuesToFloat64(b), env \in Clock :
          Evaluated(i, b, env, Evaluate(heap, objs[i], co, env))
    /\ calls' = calls + 1
    /\ UNCHANGED <<text, opts, running, bucket>>

Next ==
    \/ CallNew
    \/ \E i \in 1..Len(objs), b \in Bindings(text) : CallPartial(i, b)
    \/ \E i \in 1..Len(objs), b \in Bindings(text) : CallEvaluate(i, b)

\* texts of numbers, two symbols, two arithmetic operators and POP
Alphabet == {Tok0, Tok1, TokX, TokY, TokAdd, TokMul, TokPop}
Init == InitWith(Texts(Alphabet, MaxLen))
Spec == Init /\ [][Next]_vars

\* texts of numbers, two symbols and the division
DivisionAlphabet == {Tok0, Tok1, TokX, TokY, TokDiv}
InitDivision == InitWith(Texts(DivisionAlphabet, MaxLen))
SpecDivision == InitDivision /\ [][Next]_vars

\* texts in which an operator can follow a deferred operator of one operand
DeferredAlphabet == {Tok1, TokX, TokAbs, TokAdd, TokPop, TokDepth}
InitDeferred == InitWith(Texts(DeferredAlphabet, MaxLen))
SpecDeferred == InitDeferred /\ [][Next]_vars

\* the names of the operator catalog, as texts
OperatorTokens ==
    {<<"%">>, <<"*">>, <<"+">>, <<"-">>, <<"/">>, <<"A", "B", "S">>,
     <<"A", "D", "D", "N", "A", "N">>, <<"A", "T", "A", "N">>,
     <<"A", "T", "A", "N", "2">>, <<"A", "V", "G">>, <<"C", "E", "I", "L">>,
     <<"C", "O", "P", "Y">>, <<"C", "O", "S">>, <<"D", "E", "G", "2", "R", "A", "D">>,
     <<"D", "E", "P", "T", "H">>, <<"D", "U", "P">>, <<"E", "Q">>, <<"E", "X", "C">>,
     <<"E", "X", "P">>, <<"F", "L", "O", "O", "R">>, <<"G", "E">>, <<"G", "T">>,
     <<"I", "F">>, <<"I", "N", "D", "E", "X">>, <<"I", "S", "I", "N", "F">>,
     <<"L", "E">>, <<"L", "I", "M", "I", "T">>, <<"L", "O", "G">>, <<"L", "T">>,
     <<"M", "A", "D">>, <<"M", "A", "X">>, <<"M", "A", "X", "N", "A", "N">>,
     <<"M", "E", "D", "I", "A", "N">>, <<"M", "I", "N">>,
     <<"M", "I", "N", "N", "A", "N">>, <<"N", "E">>,
     <<"P", "E", "R", "C", "E", "N", "T">>, <<"P", "O", "P">>, <<"P", "O", "W">>,
     <<"R", "A", "D", "2", "D", "E", "G">>, <<"R", "E", "V">>, <<"R", "O", "L", "L">>,
     <<"S", "I", "N">>, <<"S", "M", "A", "X">>, <<"S", "M", "I", "N">>,
     <<"S", "O", "R", "T">>, <<"S", "Q", "R", "T">>, <<"S", "T", "D", "E", "V">>,
     <<"T", "R", "E", "N", "D">>, <<"T", "R", "E", "N", "D", "N", "A", "N">>,
     <<"U", "N">>}

\* texts of at most MaxOperands numbers and symbols followed by one operator
MaxOperands == 3
ArityTexts ==
    {Join(Append(ts, op), DefaultDelimiter) :
        ts \in TokenSeqs({Tok1, TokX}, MaxOperands), op \in OperatorTokens}
InitArity == InitWith(ArityTexts)
SpecArity == InitArity /\ [][Next]_vars

\* the token of the operator called name
Op(name) == CHOOSE t \in OperatorTokens : ToStr(t) = name

\* the operators that take a count of items from the stack, by the
\* parameters they pop: the count alone, or two parameters
CountOperators == {"COPY", "INDEX", "REV", "SORT", "AVG", "MEDIAN", "MAD", "SMIN", "SMAX", "STDEV"}
PairOperators == {"ROLL", "PERCENT"}
TrendOperators == {"TREND", "TRENDNAN"}

\* label,count,TREND and label,count,TRENDNAN, alone or above a number:
\* the counts are 1 and 2 intervals of DefaultSecondsPerInterval
TokS == <<"s">>
Tok300 == <<"3", "0", "0">>
Tok301 == <<"3", "0", "1">>
TrendCounts == {Tok300, Tok301}
TrendTexts ==
    {Join(ts \o <<TokS, c, Op(name)>>, DefaultDelimiter) :
        ts \in {<<>>, <<Tok1>>}, c \in TrendCounts, name \in TrendOperators}
InitTrend == InitWith(TrendTexts)
SpecTrend == InitTrend /\ [][Next]_vars

\* a time-dependent name alone, or added to a number
TimeTokens ==
    {<<"N", "O", "W">>, <<"T", "I", "M", "E">>, <<"L", "T", "I", "M", "E">>,
     <<"N", "E", "W", "D", "A", "Y">>, <<"N", "E", "W", "W", "E", "E", "K">>,
     <<"N", "E", "W", "M", "O", "N", "T", "H">>, <<"N", "E", "W", "Y", "E", "A", "R">>,
     <<"C", "O", "U", "N", "T">>}
TimeTexts ==
    {Join(<<t>>, DefaultDelimiter) : t \in TimeTokens}
    \cup {Join(<<Tok1, t, TokAdd>>, DefaultDelimiter) : t \in TimeTokens}
InitTime == InitWith(TimeTexts)
SpecTime == InitTime /\ [][Next]_vars

\* texts with an empty token: leading, trailing or between two delimiters;
\* the empty text; and texts of numbers and symbols without one
TokEmpty == <<>>
EmptyTokenAlphabet == {Tok1, TokX, TokAdd, TokDepth}
EmptyTokenTexts ==
    {Join(a \o <<TokEmpty>> \o b, DefaultDelimiter) :
        a \in TokenSeqs(EmptyTokenAlphabet, MaxLen), b \in TokenSeqs(EmptyTokenAlphabet, 1)}
    \cup Texts({Tok1, TokX}, 2)
InitEmpty == InitWith(EmptyTokenTexts)
SpecEmpty == InitEmpty /\ [][Next]_vars

\* the symbol v as a number and as the label of a series
TokV == <<"v">>
CoercionTexts ==
    {Join(<<TokV>>, DefaultDelimiter), Join(<<TokV, Tok300, Op("TREND")>>, DefaultDelimiter)}
InitCoercion == InitWith(CoercionTexts)
SpecCoercion == InitCoercion /\ [][Next]_vars

\* numbers a client can write where a count is expected
Tok2 == <<"2">>
TokNeg1 == <<"-", "1">>
TokOneHalf == <<"1", ".", "5">>
TokUnkn == <<"U", "N", "K", "N">>
TokInf == <<"I", "N", "F">>
TokNegInf == <<"N", "E", "G", "I", "N", "F">>
CountTokens == {Tok0, Tok1, Tok2, TokNeg1, TokOneHalf, TokUnkn, TokInf, TokNegInf}

\* texts of at most MaxItems items followed by the parameters of a
\* count-parameterised operator and the operator
MaxItems == 3
CountTexts ==
    LET windows == TokenSeqs({Tok1, TokX}, MaxItems)
    IN  {Join(ts \o <<c, Op(name)>>, DefaultDelimiter) :
            ts \in windows, c \in CountTokens, name \in CountOperators}
        \cup {Join(ts \o <<pq[1], pq[2], Op(name)>>, DefaultDelimiter) :
            ts \in windows, pq \in CountTokens \X CountTokens, name \in PairOperators}
        \cup {Join(ts \o <<TokX, c, Op(name)>>, DefaultDelimiter) :
            ts \in windows, c \in CountTokens, name \in TrendOperators}
InitCount == InitWith(CountTexts)
SpecCount == InitCount /\ [][Next]_vars

\* texts of two operands, numbers or symbols, and a binary operator
ArithmeticOperators == {"+", "-", "*", "/", "%", "POW"}
NumberTokens == {Tok0, Tok1, Tok2, TokNeg1, TokUnkn, TokInf}
SymbolTokens == {TokX, TokY}
BinaryTexts(names) ==
    {Join(<<ab[1], ab[2], Op(name)>>, DefaultDelimiter) :
        ab \in (NumberTokens \cup SymbolTokens) \X (NumberTokens \cup SymbolTokens),
        name \in names}
InitArithmetic == InitWith(BinaryTexts(ArithmeticOperators))
SpecArithmetic == InitArithmetic /\ [][Next]_vars

\* texts of two operands and a comparison; an operand is a number, a
\* symbol or the deferred sub-expression x,ABS
ComparisonOperators == {"EQ", "NE", "GE", "GT", "LE", "LT"}
ComparableTokens == NumberTokens \cup {TokNegInf}
ComparisonOperands ==
    {<<t>> : t \in ComparableTokens \cup SymbolTokens} \cup {<<TokX, TokAbs>>}
ComparisonTexts ==
    {Join(ab[1] \o ab[2] \o <<Op(name)>>, DefaultDelimiter) :
        ab \in ComparisonOperands \X ComparisonOperands, name \in ComparisonOperators}
InitComparison == InitWith(ComparisonTexts)
SpecComparison == InitComparison /\ [][Next]_vars

\* texts A,B,C,IF: A a number, a symbol or a deferred sub-expression, B
\* and C a number, a symbol or a deferred sub-expression
IfConditions == {<<t>> : t \in ComparableTokens \cup {TokX}} \cup {<<TokX, TokAbs>>}
IfThens == {<<Tok1>>, <<TokY>>, <<TokX, TokAbs>>}
IfElses == {<<Tok2>>, <<TokX>>, <<TokX, TokAbs>>}
IfText(a, b, c) == Join(a \o b \o c \o <<Op("IF")>>, DefaultDelimiter)
IfTexts == {IfText(a, b, c) : a \in IfConditions, b \in IfThens, c \in IfElses}
InitIf == InitWith(IfTexts)
SpecIf == InitIf /\ [][Next]_vars

\* the decimal token of the integer i
IntToken(i) == (IF i < 0 THEN <<"-">> ELSE <<>>) \o IntStr(Abs(i))

\* texts w,n,m,ROLL: at most MaxItems items, numbers and a symbol, a count
\* n of them and a rotation m of up to one more than MaxItems positions
\* either way
Rotations == (0 - MaxItems - 1)..(MaxItems + 1)
RollTexts ==
    {Join(ts \o <<IntToken(n), IntToken(m), Op("ROLL")>>, DefaultDelimiter) :
        ts \in TokenSeqs({Tok1, Tok2, TokX}, MaxItems), n \in 1..MaxItems, m \in Rotations}
InitRoll == InitWith(RollTexts)
SpecRoll == InitRoll /\ [][Next]_vars

\* texts w,n,COPY and w,n,INDEX: at most MaxItems tokens, among them a
\* number, a symbol and an operator of one operand, and a count n
CopyTexts ==
    {Join(ts \o <<IntToken(n), Op(name)>>, DefaultDelimiter) :
        ts \in TokenSeqs({Tok1, TokX, TokAbs}, MaxItems), n \in 1..MaxItems,
        name \in {"COPY", "INDEX"}}
InitCopy == InitWith(CopyTexts)
SpecCopy == InitCopy /\ [][Next]_vars

\* at most MaxItems + 1 numbers and a count-parameterised operator whose
\* count is the symbol n, so that the operator acts in Evaluate
TokN == <<"n">>
SymbolicCountTexts ==
    {Join(ts \o <<TokN, Op(name)>>, DefaultDelimiter) :
        ts \in {[i \in 1..k |-> Tok1] : k \in 1..(MaxItems + 1)},
        name \in {"COPY", "INDEX", "AVG"}}
InitSymbolicCount == InitWith(SymbolicCountTexts)
SpecSymbolicCount == InitSymbolicCount /\ [][Next]_vars

-----------------------------------------------------------------------------
(* Properties.  Expression 1 is the one New returned for text. *)

\* b binds every symbol of the text cs to a float64
BindsAll(b, cs) ==
    /\ symbolsOf(cs) \subseteq DOMAIN b
    /\ \A k \in DOMAIN b : b[k].gk = "float64"

\* the tokens of the text cs with every symbol b binds replaced by its value
substituted(cs, b) ==
    LET toks == Split(cs, opts.delimiter)
    IN  [i \in 1..Len(toks) |->
            IF ToStr(toks[i]) \in DOMAIN b THEN b[ToStr(toks[i])].x ELSE Str(toks[i])]

\* the work area of a pass that starts on fresh arrays of n slots
freshWorkArea(n) == WorkArea([j \in 1..n |-> Nil], [j \in 1..n |-> FALSE], 0, EmptyMap)

\* the text cs evaluated strictly from left to right on the values b gives
\* its symbols: every operator finds numbers and computes
strictEvaluation(cs, b, env) ==
    LET toks == substituted(cs, b)
        dups == {i \in 1..Len(toks) : toks[i] = Str(TokDup)}
    IN  evaluateResult(
            simplify(toks, freshWorkArea(Len(toks) + Cardinality(dups)),
                     \E i \in 1..Len(toks) : ToStr(toks[i].s) \in TimeNames,
                     Num(opts.seconds), [err |-> NilErr, bindings |-> EmptyMap], env))

\* C1: when every symbol of the text is bound to a number and the strict
\* evaluation of the text on those numbers gives a number, Evaluate on the
\* Expression New built returns that number and no error.
C1_FoldingIsSound ==
    (ret.op = "Evaluate" /\ made[ret.recv].op = "New" /\ BindsAll(ret.bindings, text)
        /\ strictEvaluation(text, ret.bindings, ret.env).err.kind = "nil")
    => /\ ret.err.kind = "nil"
       /\ ret.val = strictEvaluation(text, ret.bindings, ret.env).val

\* the open-binding counts the last pass left in the receiver of the call
openCounts == openBindingsOf(heap, objs[ret.recv])
positiveCounts == {k \in DOMAIN openCounts : openCounts[k] > 0}

\* C2: when the pass run by Evaluate ends without error and some symbol
\* has a positive open count, Evaluate returns 0 and ErrOpenBindings with
\* exactly the symbols of positive count; when no symbol has a positive
\* count, Evaluate does not return ErrOpenBindings.
C2_OpenBindingsListed ==
    (ret.op = "Evaluate" /\ ret.pass.kind = "nil")
    => IF positiveCounts # {}
       THEN ret.val = Num(0) /\ ret.err = ErrOpenBindings(positiveCounts)
       ELSE ret.err.kind # "OpenBindings"

\* Evaluate reported some but not all of the symbols of the text as open
C2_Witness ==
    /\ ret.op = "Evaluate"
    /\ ret.pass.kind = "nil"
    /\ ret.err.kind = "OpenBindings"
    /\ ret.err.names # {}
    /\ ret.err.names # symbolsOf(text)
    /\ ret.bindings # EmptyMap

\* what the last pass left on the stack of the receiver of the call
stackHead == objs[ret.recv].scratchHead
stackItem(i) == heap[objs[ret.recv].scratch][i + 1]
extraParameters == ErrSyntax("extra parameters", "", 0, 0, Nil)

\* the outcome of Evaluate after an error-free pass with no open symbol,
\* given whether the count of remaining items makes it 'extra parameters'
outcomeAfter(isExtra) ==
    IF positiveCounts # {} THEN ret.val = Num(0) /\ ret.err = ErrOpenBindings(positiveCounts)
    ELSE IF isExtra THEN ret.val = Num(0) /\ ret.err = extraParameters
    ELSE IF stackHead = 1 /\ ~IsF(stackItem(0))
    THEN ret.val = Num(0) /\ ret.err = ExpectedFloat(stackItem(0))
    ELSE ret.err.kind = "nil" /\ stackHead = 1 /\ ret.val = stackItem(0)

Contained(b1, b2) ==
    /\ DOMAIN b1 \subseteq DOMAIN b2
    /\ \A k \in DOMAIN b1 : b1[k] = b2[k]

\* the outcome of the coercion of bindings that have only one
coerced(b) == CHOOSE co \in coerceMapValuesToFloat64(b) : TRUE

\* C4: when Expression j is Partial(P, b1) for the Expression P of New,
\* and b1 is contained in b2, Partial(j, b2) succeeds exactly when
\* Partial(P, b2) succeeds, and then both have the same tokens.
C4_PartialComposes ==
    (ret.op = "Partial" /\ made[ret.recv].op = "Partial"
        /\ made[made[ret.recv].recv].op = "New"
        /\ Contained(made[ret.recv].bindings, ret.bindings))
    => LET once == Partial(heap, objs[made[ret.recv].recv], coerced(ret.bindings), ret.env)
       IN  /\ (ret.err.kind = "nil") = (once.err.kind = "nil")
           /\ ret.err.kind = "nil"
                => tokensOf(heap, objs[ret.obj]) = tokensOf(once.heap, once.exp)

\* everything a call can read of the Expression e: the struct, and the
\* contents of its token array, scratch area, flags and open bindings
snapshot(h, e) ==
    [e |-> e, tokens |-> h[e.tokens.ref], scratch |-> h[e.scratch],
     isFloat |-> h[e.isFloat], openBindings |-> openBindingsOf(h, e)]

\* the addresses of the mutable storage of the Expression e
storage(e) == {e.tokens.ref, e.scratch, e.isFloat, e.openBindings} \ {0}

\* C5: a call of Partial changes no Expression that exists, its receiver
\* included, whether it fails or not; the Expression it returns shares no
\* storage with any other; and a call on one Expression changes no other.
C5_PartialIsIndependent ==
    [][calls' = calls + 1 /\ calls >= 1
       => /\ \A j \in 1..Len(objs) :
                (ret'.op = "Partial" \/ j # ret'.recv)
                => snapshot(heap', objs'[j]) = snapshot(heap, objs[j])
          /\ (ret'.op = "Partial" /\ ret'.err.kind = "nil")
                => \A j \in 1..Len(objs) : storage(objs'[ret'.obj]) \cap storage(objs'[j]) = {}]_vars

\* Partial returned an Expression whose tokens differ from its receiver's
C5_Witness ==
    /\ ret.op = "Partial"
    /\ ret.err.kind = "nil"
    /\ tokensOf(heap, objs[ret.obj]) # tokensOf(heap, objs[ret.recv])

\* C6: a call of Evaluate leaves String() and OpenBindings() of its
\* receiver as they were, whether it returns a value or an error.
C6_EvaluateKeepsReceiver ==
    [][(calls' = calls + 1 /\ ret'.op = "Evaluate")
       => /\ String(heap', objs'[ret'.recv]) = String(heap, objs[ret'.recv])
          /\ OpenBindings(heap', objs'[ret'.recv]) = OpenBindings(heap, objs[ret'.recv])]_vars

\* C7: Partial with no bindings on the Expression New returned, and
\* Partial with bindings b on an Expression Partial returned for b, both
\* succeed and return the tokens of their receiver.
C7_FoldingIsIdempotent ==
    (ret.op = "Partial"
        /\ \/ made[ret.recv].op = "New" /\ ret.bindings = EmptyMap
           \/ made[ret.recv].op = "Partial" /\ made[ret.recv].bindings = ret.bindings)
    => /\ ret.err.kind = "nil"
       /\ tokensOf(heap, objs[ret.obj]) = tokensOf(heap, objs[ret.recv])

\* New on the text s, then Partial with the bindings b
reparsed(s, b, env) ==
    LET parsed == New(heap, s, opts)
    IN  IF parsed.err.kind # "nil" THEN parsed
        ELSE Partial(parsed.heap, parsed.exp, coerced(b), env)

\* C8: the rendering of an Expression New or Partial returned, parsed with
\* the same delimiter and simplified with the bindings of that call, gives
\* an Expression with the same rendering.
C8_RenderingRoundTrips ==
    (ret.op \in {"New", "Partial"} /\ ret.err.kind = "nil")
    => LET again == reparsed(String(heap, objs[ret.obj]), ret.bindings, ret.env)
       IN  /\ again.err.kind = "nil"
           /\ String(again.heap, again.exp) = String(heap, objs[ret.obj])

\* the tokens New stores for the text cs
rawTokens(cs) ==
    LET toks == Split(cs, opts.delimiter) IN [i \in 1..Len(toks) |-> Str(toks[i])]

\* the pass New runs on the text cs, stopped after its first k tokens
prefixPass(cs, k) ==
    LET toks == rawTokens(cs)
        dups == {i \in 1..Len(toks) : toks[i] = Str(TokDup)}
    IN  simplify(SubSeq(toks, 1, k), freshWorkArea(Len(toks) + Cardinality(dups)),
                 FALSE, Num(opts.seconds), [err |-> NilErr, bindings |-> EmptyMap], NoRet.env)

stackOf(st) == [i \in 1..st.scratchHead |-> st.scratch[i]]

\* an unresolved operator token on the stack
isDeferredOperator(v) == IsS(v) /\ IsOperator(ToStr(v.s))

\* token k of the text is an operator that finds, among the popCount items
\* it would consume, an unresolved operator token
consumesDeferred(cs, k) ==
    LET name == ToStr(rawTokens(cs)[k].s)
        before == prefixPass(cs, k - 1)
    IN  /\ IsOperator(name)
        /\ before.err.kind = "nil"
        /\ before.scratchHead >= arity[name].popCount
        /\ \E j \in (before.scratchHead - arity[name].popCount + 1)..before.scratchHead :
              isDeferredOperator(before.scratch[j])

\* the number of items an operator of fixed arity leaves in place of the
\* popCount items it takes
leaves(name) ==
    CASE name = "POP" -> 0
      [] name \in {"DUP", "EXC"} -> 2
      [] OTHER -> 1

RECURSIVE depthAfter(_, _)
\* the number of sub-expressions the first k tokens stand for, each
\* operator token taking popCount of them; -1 if an operator lacks operands
depthAfter(toks, k) ==
    IF k = 0 THEN 0
    ELSE LET d == depthAfter(toks, k - 1)
             name == ToStr(toks[k].s)
         IN  IF d < 0 THEN d
             ELSE IF ~isDeferredOperator(toks[k]) THEN d + 1
             ELSE IF d < arity[name].popCount THEN -1
             ELSE d - arity[name].popCount + leaves(name)

wellFormed(toks) == depthAfter(toks, Len(toks)) >= 0

\* C9: in the pass of New, an operator that would consume an unresolved
\* operator token is pushed unresolved on an unchanged stack; and the
\* tokens of the Expression New returns for a well-formed postfix text
\* are well-formed postfix.
C9_NoFoldThroughDeferred ==
    ret.op = "New"
    => /\ \A k \in 1..Len(rawTokens(text)) :
             consumesDeferred(text, k)
             => /\ prefixPass(text, k).err.kind = "nil"
                /\ stackOf(prefixPass(text, k))
                     = Append(stackOf(prefixPass(text, k - 1)), rawTokens(text)[k])
       /\ ret.err.kind = "nil"
             => /\ tokensOf(heap, objs[ret.obj]) = stackOf(prefixPass(text, Len(rawTokens(text))))
                /\ wellFormed(rawTokens(text)) => wellFormed(tokensOf(heap, objs[ret.obj]))

\* token k of the text is an operator reached, without error so far, on a
\* stack of fewer items than its popCount
lacksOperands(cs, k) ==
    LET name == ToStr(rawTokens(cs)[k].s)
    IN  /\ IsOperator(name)
        /\ prefixPass(cs, k - 1).err.kind = "nil"
        /\ prefixPass(cs, k - 1).scratchHead < arity[name].popCount

\* C10: when an operator of the text is reached on a stack of fewer items
\* than its popCount, New returns no Expression and the Syntax error 'not
\* enough parameters' that names the operator and exactly its popCount.
C10_NotEnoughParameters ==
    ret.op = "New"
    => \A k \in 1..Len(rawTokens(text)) :
          lacksOperands(text, k)
          => /\ objs = <<>>
             /\ ret.err.kind = "Syntax"
             /\ ret.err.msg = "not enough parameters: operator requires operands"
             /\ ret.err.op = ToStr(rawTokens(text)[k].s)
             /\ ret.err.a = arity[ret.err.op].popCount

\* New refused an operator of three operands that found two
C10_Witness ==
    /\ ret.op = "New"
    /\ objs = <<>>
    /\ ret.err.msg = "not enough parameters: operator requires operands"
    /\ ret.err.a = Len(rawTokens(text))
    /\ Len(rawTokens(text)) >= 3

\* the name of the last token of the text, and the stack that token finds
lastName == ToStr(rawTokens(text)[Len(rawTokens(text))].s)
before == prefixPass(text, Len(rawTokens(text)) - 1)
\* the item at depth d of that stack, 1 for its top
beforeItem(d) == before.scratch[before.scratchHead - d + 1]

\* the last token is the operator name, reached without error on a stack
\* that holds its parameters
reaches(names) ==
    /\ ret.op = "New"
    /\ lastName \in names
    /\ before.err.kind = "nil"
    /\ before.scratchHead >= arity[lastName].popCount

\* the count parameter of a count-parameterised operator: n of n,m,ROLL,
\* else the parameter next to the operator
countItem == IF lastName = "ROLL" THEN beforeItem(2) ELSE beforeItem(1)
\* the parameters the operator tests as numbers
numericParameters ==
    IF lastName \in PairOperators THEN {beforeItem(1), beforeItem(2)} ELSE {beforeItem(1)}

isPositiveInteger(v) == v.k = "num" /\ v.d = 1 /\ v.n > 0

\* C11: a count-parameterised operator whose parameters are numbers and
\* whose count is not a positive finite integer makes the pass fail with
\* the Syntax error '<OP> operator requires positive finite integer: <value>'.
C11_CountValidation ==
    (reaches(CountOperators \cup PairOperators \cup TrendOperators)
        /\ \A v \in numericParameters : IsF(v)
        /\ ~isPositiveInteger(countItem))
    => \E v \in numericParameters : ret.err = ErrCount(lastName, v)

\* the number of items below the parameters of the operator
itemsBelow == before.scratchHead - arity[lastName].popCount
\* the parameter that is not the count, of an operator of two parameters
otherParameter == IF lastName = "ROLL" THEN beforeItem(1) ELSE beforeItem(2)

\* C12: a count-parameterised stack operator whose count n is a positive
\* integer larger than the number of items below its parameters makes the
\* pass fail with the Syntax error '<OP> operand requires n items, but only
\* M on stack'.
C12_WindowBound ==
    (reaches(CountOperators \cup PairOperators)
        /\ isPositiveInteger(countItem)
        /\ (lastName \in PairOperators => isPositiveInteger(otherParameter))
        /\ countItem.n > itemsBelow)
    => /\ ret.err.kind = "Syntax"
       /\ ret.err.msg = ErrItems(lastName, 0, 0).msg
       /\ ret.err.op = lastName
       /\ ret.err.a = countItem.n

\* the text as tokens, its last token op, the two tokens a and b before
\* it, and the tokens below them
textTokens == Split(text, opts.delimiter)
tokenOp == textTokens[Len(textTokens)]
tokenA == textTokens[Len(textTokens) - 2]
tokenB == textTokens[Len(textTokens) - 1]
tokensBelow(n) == SubSeq(textTokens, 1, Len(textTokens) - n - 1)

\* the text is items, a, b and one of the operators names
isBinaryText(names) ==
    /\ Len(textTokens) >= 3
    /\ ToStr(tokenOp) \in names
    /\ \A i \in 1..(Len(textTokens) - 1) : textTokens[i] \in NumberTokens \cup SymbolTokens

\* the identities C13 lists for a,b,op with one symbolic operand: the
\* tokens that replace a,b,op
arithmeticIdentity(a, b, op) ==
    LET numA == a \in NumberTokens
        numB == b \in NumberTokens
    IN  CASE op = "+" /\ numA /\ a = Tok0 -> <<b>>
          [] op = "+" /\ numB /\ b = Tok0 -> <<a>>
          [] op = "-" /\ numB /\ b = Tok0 -> <<a>>
          [] op = "*" /\ (a = Tok0 \/ b = Tok0) -> <<Tok0>>
          [] op = "*" /\ a = Tok1 -> <<b>>
          [] op = "*" /\ b = Tok1 -> <<a>>
          [] op = "/" /\ a = Tok0 -> <<Tok0>>
          [] op = "/" /\ b = Tok1 -> <<a>>
          [] op = "/" /\ b = Tok0 -> <<TokUnkn>>
          [] op = "%" /\ b = Tok1 -> <<Tok0>>
          [] op = "%" /\ b = Tok0 -> <<TokUnkn>>
          [] op = "POW" /\ a = Tok0 -> <<Tok0>>
          [] op = "POW" /\ a = Tok1 -> <<Tok1>>
          [] op = "POW" /\ b = Tok0 -> <<Tok1>>
          [] op = "POW" /\ b = Tok1 -> <<a>>
          [] OTHER -> <<a, b, tokenOp>>

\* C13: New on a,b,op, with op a binary arithmetic operator and a or b a
\* symbol, succeeds and renders what the listed identities give for
\* a,b,op: the folded operand or number, else a,b,op unresolved.
C13_SymbolicIdentities ==
    (ret.op = "New" /\ isBinaryText(ArithmeticOperators)
        /\ (tokenA \in SymbolTokens \/ tokenB \in SymbolTokens))
    => /\ ret.err.kind = "nil"
       /\ String(heap, objs[ret.obj])
            = Join(tokensBelow(2) \o arithmeticIdentity(tokenA, tokenB, ToStr(tokenOp)),
                   opts.delimiter)

\* New folded an arithmetic operator that had one symbolic operand
C13_Witness ==
    /\ ret.op = "New" /\ isBinaryText(ArithmeticOperators)
    /\ (tokenA \in SymbolTokens) # (tokenB \in SymbolTokens)
    /\ ret.err.kind = "nil"
    /\ String(heap, objs[ret.obj]) # text

\* the text is a,b,op with op a comparison and a and b single tokens
isComparison == Len(textTokens) = 3 /\ ToStr(tokenOp) \in ComparisonOperators

\* the place of a number in the ordering: -Inf least, +Inf greatest
orderOf(t) ==
    CASE t = TokNegInf -> -3
      [] t = TokNeg1 -> -1
      [] t = Tok0 -> 0
      [] t = Tok1 -> 1
      [] t = Tok2 -> 2
      [] t = TokInf -> 3

\* the comparison op of two numbers that are not NaN, by ordinary ordering
ordinaryComparison(a, b, op) ==
    CASE op = "EQ" -> orderOf(a) = orderOf(b)
      [] op = "NE" -> orderOf(a) # orderOf(b)
      [] op = "GE" -> orderOf(a) >= orderOf(b)
      [] op = "GT" -> orderOf(a) > orderOf(b)
      [] op = "LE" -> orderOf(a) <= orderOf(b)
      [] op = "LT" -> orderOf(a) < orderOf(b)

\* what C14 says a,b,op folds to, for numbers a and b
numericComparison(a, b, op) ==
    IF a = TokUnkn \/ b = TokUnkn
    THEN (CASE op = "EQ" -> Tok0
            [] op = "NE" -> Tok1
            [] OTHER -> TokUnkn)
    ELSE IF ordinaryComparison(a, b, op) THEN Tok1 ELSE Tok0

\* C14: New on a,b,op with a and b numbers and op a comparison succeeds
\* and renders UNKN for GE, GT, LE and LT with a NaN operand, 0 for EQ and
\* 1 for NE with a NaN operand, and else 1 or 0 by ordinary ordering.
C14_NumericComparison ==
    (ret.op = "New" /\ isComparison
        /\ tokenA \in ComparableTokens /\ tokenB \in ComparableTokens)
    => /\ ret.err.kind = "nil"
       /\ String(heap, objs[ret.obj]) = numericComparison(tokenA, tokenB, ToStr(tokenOp))

\* New folded a relational comparison with a NaN operand
C14_Witness ==
    /\ ret.op = "New" /\ isComparison
    /\ tokenA = TokUnkn /\ tokenB \in ComparableTokens \ {TokUnkn}
    /\ ToStr(tokenOp) = "GE"
    /\ ret.err.kind = "nil"
    /\ String(heap, objs[ret.obj]) = TokUnkn

\* C15: New on a,b,op with op a comparison and a or b not a number
\* succeeds; when a and b are the same symbol it renders 1 for EQ, GE and
\* LE and 0 for NE, GT and LT, and else it renders the text unchanged.
C15_SymbolicComparison ==
    (ret.op = "New" /\ ToStr(tokenOp) \in ComparisonOperators
        /\ ~(isComparison /\ tokenA \in ComparableTokens /\ tokenB \in ComparableTokens))
    => /\ ret.err.kind = "nil"
       /\ String(heap, objs[ret.obj])
            = IF isComparison /\ tokenA \in SymbolTokens /\ tokenA = tokenB
              THEN (IF ToStr(tokenOp) \in {"EQ", "GE", "LE"} THEN Tok1 ELSE Tok0)
              ELSE text

\* New folded a strict comparison of a symbol with itself to 0
C15_Witness ==
    /\ ret.op = "New" /\ isComparison
    /\ tokenA \in SymbolTokens /\ tokenA = tokenB
    /\ ToStr(tokenOp) = "GT"
    /\ ret.err.kind = "nil"
    /\ String(heap, objs[ret.obj]) = Tok0

\* New left a comparison with a deferred operator as operand unresolved
C15_DeferredWitness ==
    /\ ret.op = "New" /\ ToStr(tokenOp) \in ComparisonOperators
    /\ Len(textTokens) = 5
    /\ ret.err.kind = "nil"
    /\ String(heap, objs[ret.obj]) = text

\* an operand that is one token, not a deferred sub-expression
isItem(a) == Len(a) = 1

\* what C16 says A,B,C,IF renders as
ifOutcome(a, b, c) ==
    IF isItem(a) /\ a[1] \in ComparableTokens /\ isItem(b) /\ isItem(c)
    THEN (IF a[1] \in {Tok0, TokUnkn} THEN c[1] ELSE b[1])
    ELSE IfText(a, b, c)

intOf(tok) == CHOOSE i \in (0 - MaxItems - 2)..(MaxItems + 2) : IntToken(i) = tok

\* the items w rotated by m positions: new[i] = w[(i - m) mod n], from 0
rotated(w, m) == [i \in 1..Len(w) |-> w[((i - 1 - m) % Len(w)) + 1]]

\* C17: New on w,n,m,ROLL with n of the items of w available succeeds and
\* renders the items below the top n followed by the top n rotated by m
\* positions, for every integer m.
C17_RollRotates ==
    (ret.op = "New" /\ ToStr(tokenOp) = "ROLL" /\ intOf(tokenA) <= Len(tokensBelow(2)))
    => LET n == intOf(tokenA)
           items == tokensBelow(2)
           kept == SubSeq(items, 1, Len(items) - n)
           w == SubSeq(items, Len(items) - n + 1, Len(items))
       IN  /\ ret.err.kind = "nil"
           /\ String(heap, objs[ret.obj])
                = Join(kept \o rotated(w, intOf(tokenB)), opts.delimiter)

\* the items of the stack the last token finds, and the top n of those
\* below its count
itemsBefore == stackOf(before)
windowBelowCount(n) == SubSeq(itemsBefore, Len(itemsBefore) - n, Len(itemsBefore) - 1)
hasDeferred(w) == \E j \in 1..Len(w) : isDeferredOperator(w[j])

\* what C18 says is left of the stack by n,COPY and n,INDEX
copyOutcome(n) ==
    LET below == SubSeq(itemsBefore, 1, Len(itemsBefore) - 1)
        w == windowBelowCount(n)
    IN  IF hasDeferred(w) THEN Append(itemsBefore, Str(tokenOp))
        ELSE IF lastName = "COPY" THEN below \o w
        ELSE Append(below, w[1])

\* C18: New on a text that ends with n,COPY or n,INDEX, n a positive
\* integer not larger than the number of items below it, succeeds; COPY
\* replaces the count by copies of the top n items in their order, INDEX
\* by a copy of the item n positions below it, and with a deferred operator
\* among the n items the stack is unchanged and the operator is deferred.
C18_CopyAndIndex ==
    (reaches({"COPY", "INDEX"})
        /\ isPositiveInteger(countItem) /\ countItem.n <= itemsBelow)
    => /\ ret.err.kind = "nil"
       /\ tokensOf(heap, objs[ret.obj]) = copyOutcome(countItem.n)

\* the positions of the DEPTH tokens of the text, and the first of them
depthPositions == {k \in 1..Len(textTokens) : textTokens[k] = TokDepth}
firstDepth == CHOOSE k \in depthPositions : \A j \in depthPositions : k <= j

\* the text with its first DEPTH replaced by the literal of the number of
\* items the stack holds when that token is reached
depthAsLiteral ==
    Join([textTokens EXCEPT ![firstDepth] = IntToken(prefixPass(text, firstDepth - 1).scratchHead)],
         opts.delimiter)

\* the first DEPTH of the text is reached without error
reachesDepth == depthPositions # {} /\ prefixPass(text, firstDepth - 1).err.kind = "nil"

\* the outcomes r and q are the same error, or both none with Expressions
\* that render the same
sameOutcome(r, q) ==
    /\ r.err = q.err
    /\ r.err.kind = "nil" => String(r.heap, r.exp) = String(q.heap, q.exp)

\* what the last call returned: its error, or the Expression it returned
returned ==
    [heap |-> heap, err |-> ret.err,
     exp |-> IF ret.obj \in 1..Len(objs) THEN objs[ret.obj] ELSE NoRet]

\* C19: a DEPTH token acts as the literal of the number of items on the
\* stack would in its place: New on the text, and Partial on the Expression
\* New returned, end as they do for the text with the literal.
C19_DepthIsANumber ==
    /\ (ret.op = "New" /\ reachesDepth)
        => sameOutcome(returned, New(<<>>, depthAsLiteral, opts))
    /\ (ret.op = "Partial" /\ made[ret.recv].op = "New" /\ reachesDepth)
        => sameOutcome(returned, reparsed(depthAsLiteral, ret.bindings, ret.env))

\* the operators that fold a window of numbers to one number
Aggregates == {"AVG", "MEDIAN", "MAD", "SMIN", "SMAX", "STDEV", "PERCENT"}

\* the n items below the parameters of the last token, and those below them
windowed(n) ==
    SubSeq(itemsBefore, itemsBelow - n + 1, itemsBelow)
belowWindow(n) == SubSeq(itemsBefore, 1, itemsBelow - n)

\* C20: New on a text that ends with an aggregate whose count n is valid
\* succeeds; if the n windowed items are all numbers it leaves the items
\* below the window and one number, and else the stack as it was with the
\* operator token on top.
C20_AggregatesNeedNumbers ==
    (reaches(Aggregates)
        /\ isPositiveInteger(countItem) /\ countItem.n <= itemsBelow
        /\ (lastName = "PERCENT" => isPositiveInteger(otherParameter)))
    => LET n == countItem.n
           toks == tokensOf(heap, returned.exp)
       IN  /\ ret.err.kind = "nil"
           /\ IF \A j \in 1..n : IsF(windowed(n)[j])
              THEN /\ Len(toks) = itemsBelow - n + 1
                   /\ SubSeq(toks, 1, itemsBelow - n) = belowWindow(n)
                   /\ IsF(toks[Len(toks)])
              ELSE toks = Append(itemsBefore, Str(tokenOp))

\* the last call was made on the Expression New returned, with bindings
\* the coercion accepts
onParsed ==
    /\ ret.op \in {"Partial", "Evaluate"}
    /\ made[ret.recv].op = "New"
    /\ \A co \in coerceMapValuesToFloat64(ret.bindings) : co.err.kind = "nil"

\* the series the last call bound to the label s, and the number of its
\* elements that label,count,TREND asks for
boundSeries == [i \in 1..Len(ret.bindings["s"].xs) |-> ret.bindings["s"].xs[i].x]
intervals == (countItem.n + opts.seconds - 1) \div opts.seconds
lastElements(xs, k) == [i \in 1..k |-> xs[Len(xs) - k + i]]

RECURSIVE total(_)
total(xs) == IF xs = <<>> THEN Num(0) ELSE fAdd(xs[1], total(Tail(xs)))

\* the mean the operator name gives of the elements w
trendMean(name, w) ==
    LET numbers == SelectSeq(w, LAMBDA v : ~IsNaN(v))
    IN  IF name = "TREND"
        THEN IF numbers # w THEN NaN ELSE fDiv(total(w), Num(Len(w)))
        ELSE IF numbers = <<>> THEN NaN ELSE fDiv(total(numbers), Num(Len(numbers)))

\* the residual of the receiver with its last three tokens replaced by v
trendFolded(v) ==
    LET toks == tokensOf(heap, objs[ret.recv])
    IN  Append(SubSeq(toks, 1, Len(toks) - 3), v)

\* C21: on s,count,TREND and s,count,TRENDNAN with s bound to a series and
\* k = ceil(count / secondsPerInterval), a pass fails with the Syntax error
\* 'operand specifies k values, but only len available' when k exceeds the
\* length of the series, and else replaces label and count by the mean of
\* the last k elements (TREND: NaN if any is NaN; TRENDNAN: NaN elements
\* left out of sum and count) without reporting s as open; with s unbound
\* the three tokens stay unresolved.
C21_TrendMean ==
    (onParsed /\ lastName \in TrendOperators /\ before.err.kind = "nil")
    => IF "s" \in DOMAIN ret.bindings
       THEN LET k == intervals
                mean == trendMean(lastName, lastElements(boundSeries, k))
            IN  IF k > Len(boundSeries)
                THEN ret.err = ErrSyntax("operand specifies values, but only available",
                                         lastName, k, Len(boundSeries), Nil)
                ELSE IF ret.op = "Partial"
                THEN /\ ret.err.kind = "nil"
                     /\ tokensOf(heap, objs[ret.obj]) = trendFolded(mean)
                ELSE /\ ret.err.kind # "OpenBindings"
                     /\ Len(textTokens) = 3 => ret.err.kind = "nil" /\ ret.val = mean
       ELSE IF ret.op = "Partial"
       THEN /\ ret.err.kind = "nil"
            /\ tokensOf(heap, objs[ret.obj]) = tokensOf(heap, objs[ret.recv])
            /\ Len(tokensOf(heap, objs[ret.obj])) = Len(textTokens)
       ELSE ret.err = ErrOpenBindings({"s"})

\* Evaluate of s,301,TRENDNAN with s bound to NaN, 1 gave 1
C21_Witness ==
    /\ onParsed /\ ret.op = "Evaluate" /\ lastName = "TRENDNAN" /\ Len(textTokens) = 3
    /\ "s" \in DOMAIN ret.bindings
    /\ intervals = 2 /\ boundSeries = <<NaN, Num(1)>>
    /\ ret.err.kind = "nil" /\ ret.val = Num(1)

\* the time-dependent name of a text that holds one
timeName == CHOOSE n \in timeNamesOf(text) : TRUE

\* C22: a time-dependent name is not replaced by a Partial pass, whatever
\* the bindings: the residual is that of the receiver, and an unresolved
\* LTIME, NEWDAY, NEWWEEK, NEWMONTH or NEWYEAR is open under the key TIME;
\* Evaluate does not replace a name other than NOW without a TIME binding.
C22_TimeNames ==
    (onParsed /\ timeNamesOf(text) # {})
    => IF ret.op = "Partial"
       THEN /\ ret.err.kind = "nil"
            /\ tokensOf(heap, objs[ret.obj]) = tokensOf(heap, objs[ret.recv])
            /\ timeName \in {"LTIME", "NEWDAY", "NEWWEEK", "NEWMONTH", "NEWYEAR"}
                   => OpenBindings(heap, objs[ret.obj]) = {"TIME"}
       ELSE (timeName # "NOW" /\ "TIME" \notin DOMAIN ret.bindings)
                => ret.err.kind = "OpenBindings"

\* the text is empty or holds an empty token
hasEmptyToken == text = <<>> \/ \E i \in 1..Len(textTokens) : textTokens[i] = TokEmpty

\* C23: New rejects the empty text and every text with an empty token with
\* a Syntax error and returns no Expression, and no Expression that New or
\* Partial returned holds the empty string as a token.
C23_EmptyTokensRejected ==
    /\ (ret.op = "New" /\ hasEmptyToken) => ret.err.kind = "Syntax" /\ ret.obj = 0
    /\ \A i \in 1..Len(objs) :
          \A j \in 1..objs[i].tokens.len : tokensOf(heap, objs[i])[j] # Str(TokEmpty)

\* the kinds of value the coercion is said to convert
isSupportedScalar(b) == b.gk \in {"int", "int32", "int64", "float32", "float64"}
isSupportedValue(b) ==
    \/ isSupportedScalar(b)
    \/ b.gk \in {"[]int", "[]int32", "[]int64", "[]float32", "[]float64"}
    \/ b.gk = "[]interface{}" /\ \A i \in 1..Len(b.xs) : isSupportedScalar(b.xs[i])
\* the float64 of a number of a supported kind
asFloat64(v) == IF v.k = "int" THEN Num(v.n) ELSE v

\* C24: a call of Partial or Evaluate with v bound to a value of a kind
\* that is not supported returns ErrBadBindingType naming v; with a value
\* of a supported kind it does not, and Evaluate of v gives the scalar as
\* a float64, Evaluate of v,300,TREND the one element of the slice.
C24_CoercionIsTotal ==
    (ret.op \in {"Partial", "Evaluate"} /\ "v" \in DOMAIN ret.bindings)
    => LET b == ret.bindings["v"]
       IN  IF ~isSupportedValue(b)
           THEN ret.err.kind = "BadBindingType" /\ ret.err.op = "v"
           ELSE /\ ret.err.kind \notin {"BadBindingType", "panic"}
                /\ (ret.op = "Evaluate" /\ made[ret.recv].op = "New")
                      => /\ (text = TokV /\ isSupportedScalar(b))
                              => ret.err.kind = "nil" /\ ret.val = asFloat64(b.x)
                         /\ (text # TokV /\ Len(b.xs) = 1)
                              => ret.err.kind = "nil" /\ ret.val = asFloat64(b.xs[1].x)

\* the flag of the item at position i of a work area agrees with its value,
\* and the item is a float64 or a string
isTagged(scratch, isFloat, i) ==
    /\ isFloat[i] = IsF(scratch[i])
    /\ IsF(scratch[i]) \/ IsS(scratch[i])

\* C25: after every token of the pass New runs on the text, and in the work
\* area of every Expression the client holds, each item below the stack
\* head has a flag that agrees with its value and is a float64 or a string.
C25_TagsAgree ==
    /\ ret.op = "New"
          => \A k \in 0..Len(textTokens) :
                LET st == prefixPass(text, k)
                IN  st.err.kind = "nil"
                      => \A i \in 1..st.scratchHead : isTagged(st.scratch, st.isFloat, i)
    /\ \A o \in 1..Len(objs) :
          \A i \in 1..objs[o].scratchHead :
              isTagged(heap[objs[o].scratch], heap[objs[o].isFloat], i)

\* a write past the end of the scratch area, or Partial's reslice of the
\* token array past its capacity
OutOfCapacity == {Panic("index out of range"), Panic("slice bounds out of range")}

\* C26: New on a text that ends with n,COPY, n a positive integer not
\* larger than the number of items below it, neither writes past the end
\* of the scratch and isFloat areas nor slices the token array past its
\* capacity.
C26_Capacity ==
    (reaches({"COPY"}) /\ isPositiveInteger(countItem) /\ countItem.n <= itemsBelow)
    => ret.err \notin OutOfCapacity

\* Evaluate with the bindings b as the first call on the Expression New
\* returns for the text
firstEvaluate(b, env) ==
    LET parsed == New(<<>>, text, opts)
    IN  Evaluate(parsed.heap, parsed.exp, coerced(b), env)

\* C27: Evaluate on the Expression New returned gives the value or error it
\* gives as the first call on that Expression, whatever calls were made
\* on it before.
C27_EvaluateForgets ==
    (onParsed /\ ret.op = "Evaluate")
    => LET first == firstEvaluate(ret.bindings, ret.env)
       IN  ret.err = first.err /\ ret.val = first.val

\* the Expression a successful New or Partial returned, its residual tokens
\* and its open-binding counts
passReturned == ret.op \in {"New", "Partial"} /\ ret.err = NilErr /\ ret.obj \in 1..Len(objs)
residualTokens == tokensOf(heap, objs[ret.obj])
occurrences(name) ==
    Cardinality({i \in 1..Len(residualTokens) : residualTokens[i].k = "str" /\ ToStr(residualTokens[i].s) = name})
openCount(name) ==
    LET counts == openBindingsOf(heap, objs[ret.obj])
    IN  IF name \in DOMAIN counts THEN counts[name] ELSE 0

\* C28: after a pass the open-binding count of every symbol that is not a
\* series label is the number of its occurrences left in the residual
\* stack, so a symbol that was folded away or discarded is not reported
\* by OpenBindings().
C28_OpenBindingAccounting ==
    passReturned
    => \A name \in Symbols \ Labels :
           /\ openCount(name) = occurrences(name)
           /\ name \in OpenBindings(heap, objs[ret.obj]) <=> occurrences(name) > 0

-----------------------------------------------------------------------------
(* Evaluate calls of several goroutines.  A goroutine runs Evaluate in     *)
(* steps: the start of simplify (coercion, reset of the work area, time    *)
(* setup), one step per token of the program, and the reading of the       *)
(* result.  The work area is the receiver's: its scratchHead field and     *)
(* the arrays and the map its fields point to.                             *)

\* what simplify computes once, before its loop over the tokens
passConfig(e, co, env) ==
    LET timeBound == e.performTimeSubstitutions /\ "TIME" \in DOMAIN co.bindings
        isTimeSet == timeBound /\ co.bindings["TIME"].gk = "float64"
        zTimeSeconds == IF isTimeSet THEN co.bindings["TIME"].x ELSE Num(0)
        tm == TimeOf(zTimeSeconds, env.zone)
    IN  [bindings |-> co.bindings,
         performTimeSubstitutions |-> e.performTimeSubstitutions,
         secondsPerInterval |-> e.secondsPerInterval,
         nowSeconds |-> Num(env.now),
         isTimeSet |-> isTimeSet,
         zTimeSeconds |-> zTimeSeconds,
         jTimeSeconds |-> tm.jTimeSeconds,
         date |-> tm.date]

\* the work area the fields of e point to, and the fields after a step
\* left the work area st; aOpen is the address of the open-binding map
workAreaOf(h, e) ==
    WorkArea(h[e.scratch], h[e.isFloat], e.scratchHead, openBindingsOf(h, e))
withWorkArea(h, e, st, aOpen) ==
    LET h1 == Store(h, aOpen, st.openBindings)
        aScratch == IF st.grew THEN Len(h1) + 1 ELSE e.scratch
        h2 == Store(h1, aScratch, st.scratch)
        aIsFloat == IF st.grew THEN Len(h2) + 1 ELSE e.isFloat
    IN  [heap |-> Store(h2, aIsFloat, st.isFloat),
         e |-> [e EXCEPT !.openBindings = aOpen, !.scratchHead = st.scratchHead,
                         !.scratch = aScratch, !.isFloat = aIsFloat]]

Goroutine(i, co, env) ==
    [recv |-> i, co |-> co, env |-> env, pc |-> "simplify", tokIdx |-> 0,
     val |-> Num(0), err |-> NilErr, heap |-> heap, objs |-> objs]

Done(g, val, err) == [g EXCEPT !.pc = "done", !.val = val, !.err = err]

\* two goroutines call Evaluate, on one Expression or on two
GoEvaluate(i, j, b1, b2) ==
    /\ calls \in 1..(MaxCalls - 1)
    /\ running = <<>>
    /\ \E co1 \in coerceMapValuesToFloat64(b1), co2 \in coerceMapValuesToFloat64(b2),
          env \in Clock :
          running' = <<Goroutine(i, co1, env), Goroutine(j, co2, env)>>
    /\ calls' = MaxCalls
    /\ UNCHANGED <<text, opts, heap, objs, ret, made, bucket>>

\* the start of simplify: src/eval.go 1353-1394
StepSimplify(t) ==
    LET g == running[t]
        e == objs[g.recv]
        timeBound == e.performTimeSubstitutions /\ "TIME" \in DOMAIN g.co.bindings
        reset == withWorkArea(heap, e, resetWorkArea(workAreaOf(heap, e)), Len(heap) + 1)
    IN  /\ g.pc = "simplify"
        /\ IF g.co.err.kind # "nil"
           THEN /\ running' = [running EXCEPT ![t] = Done(g, Num(0), g.co.err)]
                /\ UNCHANGED <<heap, objs>>
           ELSE /\ heap' = reset.heap
                /\ objs' = [objs EXCEPT ![g.recv] = reset.e]
                /\ running' = [running EXCEPT ![t] =
                      IF timeBound /\ g.co.bindings["TIME"].gk # "float64"
                      THEN Done(g, Num(0),
                                ErrSyntax("TIME ought to be bound to number rather than", "", 0, 0, Nil))
                      ELSE [g EXCEPT !.pc = "tokens"]]
        /\ UNCHANGED <<text, opts, ret, calls, made, bucket>>

\* one turn of the loop over e.tokens: src/eval.go 1396-2425
StepToken(t) ==
    LET g == running[t]
        e == objs[g.recv]
        tokens == tokensOf(heap, e)
        st == stepToken(tokens[g.tokIdx + 1], g.tokIdx, workAreaOf(heap, e),
                        passConfig(e, g.co, g.env))
        after == withWorkArea(heap, e, st, e.openBindings)
    IN  /\ g.pc = "tokens"
        /\ g.tokIdx < Len(tokens)
        /\ heap' = after.heap
        /\ objs' = [objs EXCEPT ![g.recv] = after.e]
        /\ running' = [running EXCEPT ![t] =
              IF st.err.kind # "nil" THEN Done(g, Num(0), st.err)
              ELSE [g EXCEPT !.tokIdx = g.tokIdx + 1]]
        /\ UNCHANGED <<text, opts, ret, calls, made, bucket>>

\* after the loop Evaluate reads the receiver: src/eval.go 1173-1190
StepResult(t) ==
    LET g == running[t]
        e == objs[g.recv]
        res == evaluateResult(workAreaOf(heap, e))
    IN  /\ g.pc = "tokens"
        /\ g.tokIdx >= Len(tokensOf(heap, e))
        /\ running' = [running EXCEPT ![t] = Done(g, res.val, res.err)]
        /\ UNCHANGED <<text, opts, heap, objs, ret, calls, made, bucket>>

NextConcurrent ==
    \/ CallNew
    \/ \E b \in Bindings(text) : running = <<>> /\ CallPartial(1, b)
    \/ \E i, j \in 1..Len(objs), b1, b2 \in Bindings(text) : GoEvaluate(i, j, b1, b2)
    \/ \E t \in 1..Len(running) : StepSimplify(t)
    \/ \E t \in 1..Len(running) : StepToken(t)
    \/ \E t \in 1..Len(running) : StepResult(t)

\* a sum of two operands, each the number 1 or the symbol x
ConcurrentTexts == {Join(<<a, b, TokAdd>>, DefaultDelimiter) : a, b \in {Tok1, TokX}}
InitConcurrent == InitWith(ConcurrentTexts)
SpecConcurrent == InitConcurrent /\ [][NextConcurrent]_vars

\* what sequential execution of the two calls returns to goroutine t: its
\* call made first, or made after the call of the other goroutine u
outcome(r) == [val |-> r.val, err |-> r.err]
sequentialOutcomes(t, u) ==
    LET g == running[t]
        o == running[u]
        other == Evaluate(g.heap, g.objs[o.recv], o.co, o.env)
        objsAfter == [g.objs EXCEPT ![o.recv] = other.e]
    IN  {outcome(Evaluate(g.heap, g.objs[g.recv], g.co, g.env)),
         outcome(Evaluate(other.heap, objsAfter[g.recv], g.co, g.env))}
allReturned == running # <<>> /\ \A t \in 1..Len(running) : running[t].pc = "done"
isSequential(t, u) == outcome(running[t]) \in sequentialOutcomes(t, u)

\* C29: when two goroutines have called Evaluate on two different
\* Expressions, one of them possibly a Partial of the other, each call
\* returns what it returns in a sequential execution, under every
\* interleaving of their steps; calls on one Expression need not.
C29_DistinctExpressionsIndependent ==
    (allReturned /\ running[1].recv # running[2].recv)
    => (isSequential(1, 2) /\ isSequential(2, 1))

\* two calls on one Expression, and one returned what no sequential
\* execution returns
C29_Witness ==
    /\ allReturned
    /\ running[1].recv = running[2].recv
    /\ ~isSequential(1, 2)

\* two calls on an Expression and its Partial have returned numbers
C29_WitnessDistinct ==
    /\ allReturned
    /\ running[1].recv # running[2].recv
    /\ running[1].err = NilErr /\ running[2].err = NilErr

-----------------------------------------------------------------------------
(* SparseSeries.Bucket.  A time is a number of seconds since the Unix      *)
(* epoch and a step a number of seconds that divides the seconds between   *)
(* Go's zero time and the epoch, so that Time.Truncate rounds a time down  *)
(* to a multiple of the step.                                              *)

Avg == 0
Last == 1
Max == 2
Min == 3

Truncate(t, d) == t - (t % d)

RECURSIVE searchTimes(_, _, _, _, _, _)
\* the loop of binarySearchTimes
searchTimes(key, times, lo, hi, i, t) ==
    IF lo > hi THEN <<i, t>>
    ELSE LET m == (lo + hi) \div 2
             tm == times[m + 1]
         IN  IF key < tm THEN searchTimes(key, times, lo, m - 1, m, tm)
             ELSE IF key > tm THEN searchTimes(key, times, m + 1, hi, m, tm)
             ELSE <<m, tm>>

binarySearchTimes(key, times) == searchTimes(key, times, 0, Len(times) - 1, 0, 0)

\* def.Values[di] = v; di++
writeValue(b, v) ==
    IF b.di >= Len(b.Values) THEN [b EXCEPT !.err = Panic("index out of range")]
    ELSE [b EXCEPT !.Values[b.di + 1] = v, !.di = b.di + 1]

\* the value the closure emit stores
consolidate(b, cf) ==
    CASE b.bucketDatumCount = 0 -> NaN
      [] cf = Avg -> fDiv(b.bucketDatumSum, Num(b.bucketDatumCount))
      [] cf = Min -> b.bucketMin
      [] cf = Max -> b.bucketMax
      [] cf = Last -> b.value
      [] OTHER -> NaN

emit(b, cf) == writeValue(b, consolidate(b, cf))

nextBucket(b, step) == [b EXCEPT !.bucketStart = b.bucketEnd, !.bucketEnd = b.bucketEnd + step]

resetStatistics(b) ==
    [b EXCEPT !.bucketDatumCount = 0, !.bucketDatumSum = Num(0),
              !.bucketMax = NegInf, !.bucketMin = PosInf]

RECURSIVE leadingNaN(_, _, _)
\* NaN for the buckets before the datum the search stopped on
leadingNaN(b, bucketCount, step) ==
    IF b.di < bucketCount /\ b.bucketStart < b.t
    THEN leadingNaN(nextBucket(writeValue(b, NaN), step), bucketCount, step)
    ELSE b

RECURSIVE fillNaN(_, _)
\* NaN for the buckets between two data
fillNaN(b, step) ==
    IF b.err.kind = "nil" /\ ~(b.t < b.bucketEnd)
    THEN fillNaN(nextBucket(writeValue(b, NaN), step), step)
    ELSE b

RECURSIVE enumerate(_, _, _, _, _)
\* the loop over the data from s.Values[i] on
enumerate(b, s, end, step, cf) ==
    LET value == s.Values[b.i + 1]
        counted ==
            IF IsNaN(value) THEN [b EXCEPT !.value = value]
            ELSE [b EXCEPT !.value = value,
                           !.bucketDatumCount = b.bucketDatumCount + 1,
                           !.bucketDatumSum = fAdd(b.bucketDatumSum, value),
                           !.bucketMax = IF fLt(b.bucketMax, value) THEN value ELSE b.bucketMax,
                           !.bucketMin = IF fGt(b.bucketMin, value) THEN value ELSE b.bucketMin]
        i == b.i + 1
        advanced == [counted EXCEPT !.i = i]
        t == s.Times[i + 1]
        atNext == [advanced EXCEPT !.t = t]
        emitted == emit(atNext, cf)
        filled == fillNaN(nextBucket(resetStatistics(emitted), step), step)
    IN  IF i = Len(s.Times) THEN advanced
        ELSE IF t > end THEN atNext
        ELSE IF t < b.bucketEnd THEN enumerate(atNext, s, end, step, cf)
        ELSE IF emitted.err.kind # "nil" THEN emitted
        ELSE IF filled.err.kind # "nil" THEN filled
        ELSE enumerate(filled, s, end, step, cf)

Bucket(s, start, end, step, cf) ==
    LET bucketStart == Truncate(start, step)
        bucketEnd == bucketStart + step
        multiple == ~(bucketEnd > end)
        truncated == Truncate(end, step)
        t == IF ~multiple THEN bucketEnd
             ELSE IF truncated < end THEN truncated + step ELSE truncated
        bucketCount == IF multiple THEN ((t - bucketStart) \div step) + 1 ELSE 1
        b0 == [Values |-> [k \in 1..bucketCount |-> Num(0)], di |-> 0,
               bucketStart |-> bucketStart, bucketEnd |-> bucketEnd,
               i |-> 0, t |-> t, value |-> Num(0),
               bucketDatumCount |-> 0, bucketDatumSum |-> Num(0),
               bucketMax |-> NegInf, bucketMin |-> PosInf, err |-> NilErr]
        found == binarySearchTimes(bucketStart, s.Times)
        led == leadingNaN([b0 EXCEPT !.i = found[1], !.t = found[2]], bucketCount, step)
        looped == enumerate(led, s, end, step, cf)
        last == IF looped.err.kind = "nil" /\ looped.di < bucketCount
                THEN emit(looped, cf) ELSE looped
        walked == IF Len(s.Times) > 0
                     /\ ~(s.Times[1] > t \/ s.Times[Len(s.Times)] < bucketStart)
                  THEN last ELSE b0
    IN  IF Len(s.Times) # Len(s.Values)
        THEN [err |-> MkErr("Bucket", "cannot bucket with non-matching lengths of Times and Values",
                            "", Len(s.Times), Len(s.Values), Nil, {}),
              Start |-> 0, Step |-> 0, Values |-> <<>>]
        ELSE IF walked.err.kind # "nil"
        THEN [err |-> walked.err, Start |-> 0, Step |-> 0, Values |-> <<>>]
        ELSE [err |-> NilErr, Start |-> bucketStart, Step |-> step,
              Values |-> [k \in 1..bucketCount |->
                             IF k > walked.di THEN NaN ELSE walked.Values[k]]]

\* the series a client buckets: at most MaxPoints data at strictly
\* increasing times up to MaxTime, as many values as times
MaxTime == 4
MaxPoints == 3
MaxStep == 2
SparseData == {Num(1), Num(2), NaN}
IncreasingTimes ==
    UNION {{ts \in [1..n -> 0..MaxTime] : \A j \in 1..(n - 1) : ts[j] < ts[j + 1]} :
              n \in 0..MaxPoints}
SparseSeries ==
    UNION {{[Times |-> ts, Values |-> vs] : vs \in [1..Len(ts) -> SparseData]} :
              ts \in IncreasingTimes}
CallBucket ==
    /\ ~bucket.called
    /\ bucket' = [called |-> TRUE, s |-> bucket.s, start |-> bucket.start,
                  end |-> bucket.end, step |-> bucket.step, cf |-> bucket.cf,
                  def |-> Bucket(bucket.s, bucket.start, bucket.end, bucket.step, bucket.cf)]
    /\ UNCHANGED <<text, opts, heap, objs, ret, calls, made, running>>

InitBucket ==
    /\ text = <<>>
    /\ opts = [delimiter |-> DefaultDelimiter, seconds |-> DefaultSecondsPerInterval]
    /\ heap = <<>>
    /\ objs = <<>>
    /\ ret = NoRet
    /\ calls = 0
    /\ made = <<>>
    /\ running = <<>>
    /\ bucket \in
          {[called |-> FALSE, s |-> s, start |-> start, end |-> end, step |-> step, cf |-> cf] :
              s \in SparseSeries, start \in 0..MaxTime, end \in 0..MaxTime,
              step \in 1..MaxStep, cf \in {Avg, Last, Max, Min}}
SpecBucket == InitBucket /\ [][CallBucket]_vars

\* the data of bucket k (from 0) of the call: the indexes of the non-NaN
\* values whose time lies in the bucket and not after end
bucketData(k) ==
    LET from == Truncate(bucket.start, bucket.step) + k * bucket.step
    IN  {j \in 1..Len(bucket.s.Times) :
            /\ from <= bucket.s.Times[j]
            /\ bucket.s.Times[j] < from + bucket.step
            /\ bucket.s.Times[j] <= bucket.end
            /\ ~IsNaN(bucket.s.Values[j])}

RECURSIVE sumOver(_)
sumOver(js) ==
    IF js = {} THEN Num(0)
    ELSE LET j == CHOOSE x \in js : TRUE IN fAdd(bucket.s.Values[j], sumOver(js \ {j}))

\* the consolidation of the data js by the function of the call
consolidated(js) ==
    LET vs == bucket.s.Values
    IN  CASE js = {} -> NaN
          [] bucket.cf = Avg -> fDiv(sumOver(js), Num(Cardinality(js)))
          [] bucket.cf = Last -> vs[CHOOSE j \in js : \A x \in js : x <= j]
          [] bucket.cf = Max -> vs[CHOOSE j \in js : \A x \in js : ~fLt(vs[j], vs[x])]
          [] bucket.cf = Min -> vs[CHOOSE j \in js : \A x \in js : ~fGt(vs[j], vs[x])]

\* C30: Bucket returns a Def that starts at start truncated to step and
\* whose k-th value consolidates the non-NaN data of the k-th bucket that
\* are not after end, NaN when there are none; it does not write past the
\* end of the Def's values.
C30_Bucket ==
    bucket.called
    => /\ bucket.def.err = NilErr
       /\ bucket.def.Start = Truncate(bucket.start, bucket.step)
       /\ \A k \in 1..Len(bucket.def.Values) :
              bucket.def.Values[k] = consolidated(bucketData(k - 1))

====
